---------------------------- MODULE Spec2Model ----------------------------
(***************************************************************************)
(* The awless template parser (template/ast/ast.go): the generated PEG     *)
(* parser (Peg.Init, Parse, Execute), the AST builder it drives, and the   *)
(* AST operations used after parsing (Clone, ProcessHoles, ProcessRefs,    *)
(* ExecutionStatements, String).                                           *)
(*                                                                         *)
(* Text is a sequence of one-character strings.  Go pointers are addresses *)
(* into `heap` (0 is nil); Go maps are heap objects holding a function.    *)
(***************************************************************************)
EXTENDS Integers, Sequences, FiniteSets, TLC

VARIABLES
    peg,      \* the Peg: Buffer, buffer, position, tokenIndex, tree, max, tokens32
    asts,     \* asts[1] is the Peg's embedded *AST; the others are its clones
    heap,     \* every Statement, Node and map allocated so far
    pc,       \* "init", "parsed", "failed", "executed", "panic"
    cursor,   \* Execute: number of tokens of p.Tokens() already visited
    text,     \* Execute: the local variable text
    call,     \* the last operation invoked, its arguments and what it returned
    nops      \* number of operations invoked on the ASTs since Execute returned

vars == <<peg, asts, heap, pc, cursor, text, call, nops>>

-----------------------------------------------------------------------------
(* Characters *)

Digits == {"0", "1", "2", "3", "4", "5", "6", "7", "8", "9"}
Lower == {"a", "b", "c", "d", "e", "f", "g", "h", "i", "j", "k", "l", "m",
          "n", "o", "p", "q", "r", "s", "t", "u", "v", "w", "x", "y", "z"}
Upper == {"A", "B", "C", "D", "E", "F", "G", "H", "I", "J", "K", "L", "M",
          "N", "O", "P", "Q", "R", "S", "T", "U", "V", "W", "X", "Y", "Z"}

\* The characters of the model's texts in increasing code-point order.
AsciiOrder ==
    <<"\t", "\n", "\r", " ", "#", "$", "-", ".", "/",
      "0", "1", "2", "3", "4", "5", "6", "7", "8", "9",
      ":", "<", "=", ">", "?", "@",
      "A", "B", "C", "D", "E", "F", "G", "H", "I", "J", "K", "L", "M",
      "N", "O", "P", "Q", "R", "S", "T", "U", "V", "W", "X", "Y", "Z",
      "_",
      "a", "b", "c", "d", "e", "f", "g", "h", "i", "j", "k", "l", "m",
      "n", "o", "p", "q", "r", "s", "t", "u", "v", "w", "x", "y", "z",
      "{", "}">>

Ord == [c \in {AsciiOrder[i] : i \in 1..Len(AsciiOrder)} |->
          CHOOSE i \in 1..Len(AsciiOrder) : AsciiOrder[i] = c]

DigitChar == <<"0", "1", "2", "3", "4", "5", "6", "7", "8", "9">>
DigitVal == [c \in Digits |-> (CHOOSE i \in 1..10 : DigitChar[i] = c) - 1]

\* Go's string comparison a < b (byte-wise lexicographic).
RECURSIVE StrLess(_, _)
StrLess(a, b) ==
    IF b = <<>> THEN FALSE
    ELSE IF a = <<>> THEN TRUE
    ELSE IF Head(a) = Head(b) THEN StrLess(Tail(a), Tail(b))
    ELSE Ord[Head(a)] < Ord[Head(b)]

RECURSIVE InsertSorted(_, _)
InsertSorted(s, x) ==
    IF s = <<>> THEN <<x>>
    ELSE IF StrLess(x, Head(s)) THEN <<x>> \o s
    ELSE <<Head(s)>> \o InsertSorted(Tail(s), x)

\* sort.Strings
RECURSIVE SortStrings(_)
SortStrings(s) ==
    IF s = <<>> THEN <<>>
    ELSE InsertSorted(SortStrings(Tail(s)), Head(s))

\* strings.Join
RECURSIVE Join(_, _)
Join(parts, sep) ==
    IF parts = <<>> THEN <<>>
    ELSE IF Len(parts) = 1 THEN parts[1]
    ELSE parts[1] \o sep \o Join(Tail(parts), sep)

\* The fields of s between occurrences of sep.
RECURSIVE Split(_, _)
Split(s, sep) ==
    IF \A i \in 1..Len(s) : s[i] # sep THEN <<s>>
    ELSE LET i == CHOOSE j \in 1..Len(s) :
                     s[j] = sep /\ \A k \in 1..(j - 1) : s[k] # sep
         IN <<SubSeq(s, 1, i - 1)>> \o Split(SubSeq(s, i + 1, Len(s)), sep)

AllDigits(s) == \A i \in 1..Len(s) : s[i] \in Digits

RECURSIVE StripZeros(_)
StripZeros(s) ==
    IF Len(s) > 1 /\ Head(s) = "0" THEN StripZeros(Tail(s)) ELSE s

\* Decimal rendering of a natural number.
RECURSIVE Dec(_)
Dec(n) == IF n < 10 THEN <<DigitChar[n + 1]>>
          ELSE Dec(n \div 10) \o <<DigitChar[(n % 10) + 1]>>

\* The value of a digit run, saturating at 256 (anything above 255 is
\* rejected by every caller).
RECURSIVE SatVal(_, _)
SatVal(s, acc) ==
    IF s = <<>> THEN acc
    ELSE LET n == acc * 10 + DigitVal[Head(s)]
         IN SatVal(Tail(s), IF n > 256 THEN 256 ELSE n)

-----------------------------------------------------------------------------
(* Values held in interface{} slots: Params entries, IdentifierNode.Val,    *)
(* fills.  An int is kept as its canonical decimal text.                    *)

NilVal == [t |-> "nil", s |-> <<>>]
IntVal(digits) == [t |-> "int", s |-> digits]
StrVal(s) == [t |-> "str", s |-> s]

\* fmt's %v
FormatV(v) == IF v.t = "nil" THEN <<"<", "n", "i", "l", ">">> ELSE v.s

MaxInt64Digits ==
    <<"9", "2", "2", "3", "3", "7", "2", "0", "3", "6",
      "8", "5", "4", "7", "7", "5", "8", "0", "7">>

\* strconv.Atoi on a 64-bit int: [ok, v].
Atoi(txt) ==
    LET signed == txt # <<>> /\ Head(txt) \in {"+", "-"}
        body == IF signed THEN Tail(txt) ELSE txt
        mag == StripZeros(body)
        neg == signed /\ Head(txt) = "-"
        limit == IF neg THEN [MaxInt64Digits EXCEPT ![19] = "8"]
                 ELSE MaxInt64Digits
        inRange == \/ Len(mag) < 19
                   \/ Len(mag) = 19 /\ ~StrLess(limit, mag)
    IN IF body # <<>> /\ AllDigits(body) /\ inRange
       THEN [ok |-> TRUE,
             v |-> IntVal(IF neg /\ mag # <<"0">> THEN <<"-">> \o mag ELSE mag)]
       ELSE [ok |-> FALSE, v |-> NilVal]

\* func parseInt: [panic, v]
parseInt(txt) ==
    LET r == Atoi(txt) IN [panic |-> ~r.ok, v |-> r.v]

\* One field of a dotted quad.  `strict` is the build's net package refusing
\* a leading zero (newer Go releases) or accepting it (older ones).
OctetOk(f, strict) ==
    /\ f # <<>>
    /\ AllDigits(f)
    /\ SatVal(f, 0) <= 255
    /\ (strict => (Len(f) = 1 \/ Head(f) # "0"))

\* net.ParseIP for a dotted quad: [ok, octets].  The texts the grammar's
\* IpValue and CidrValue rules accept are four digit runs joined by three
\* characters, which is never an IPv6 address.
ParseIPv4(txt, strict) ==
    LET fs == Split(txt, ".")
    IN IF Len(fs) = 4 /\ \A i \in 1..4 : OctetOk(fs[i], strict)
       THEN [ok |-> TRUE, octets |-> [i \in 1..4 |-> SatVal(fs[i], 0)]]
       ELSE [ok |-> FALSE, octets |-> <<>>]

\* net.IP.String for an IPv4 address.
IPString(octets) == Join([i \in 1..4 |-> Dec(octets[i])], <<".">>)

\* parseIP as it would be if it kept a text that is no address as it is
parseIPKeepsText(txt, strict) ==
    LET r == ParseIPv4(txt, strict)
    IN [panic |-> FALSE, v |-> StrVal(IF r.ok THEN IPString(r.octets) ELSE txt)]

\* func parseIP: [panic, v]
parseIP(txt, strict) ==
    LET r == ParseIPv4(txt, strict)
    IN IF r.ok THEN [panic |-> FALSE, v |-> StrVal(IPString(r.octets))]
       ELSE [panic |-> TRUE, v |-> NilVal]

Pow2(n) == CASE n = 0 -> 1 [] n = 1 -> 2 [] n = 2 -> 4 [] n = 3 -> 8
             [] n = 4 -> 16 [] n = 5 -> 32 [] n = 6 -> 64 [] n = 7 -> 128
             [] OTHER -> 256

\* Octet j of an address under a mask of n leading ones.
MaskOctet(o, j, n) ==
    LET rest == n - 8 * (j - 1)
        bits == IF rest < 0 THEN 0 ELSE IF rest > 8 THEN 8 ELSE rest
        unit == Pow2(8 - bits)
    IN (o \div unit) * unit

\* func parseCIDR (net.ParseCIDR, then IPNet.String): [panic, v]
parseCIDR(txt, strict) ==
    LET fs == Split(txt, "/")
        addr == fs[1]
        mask == IF Len(fs) < 2 THEN <<>>
                ELSE SubSeq(txt, Len(addr) + 2, Len(txt))
        ip == ParseIPv4(addr, strict)
        n == SatVal(mask, 0)
    IN IF Len(fs) >= 2 /\ ip.ok /\ mask # <<>> /\ AllDigits(mask) /\ n <= 32
       THEN [panic |-> FALSE,
             v |-> StrVal(IPString([j \in 1..4 |-> MaskOctet(ip.octets[j], j, n)])
                          \o <<"/">> \o Dec(n))]
       ELSE [panic |-> TRUE, v |-> NilVal]

-----------------------------------------------------------------------------
(* The heap.  An address is an index of `heap`; 0 is nil.                   *)

Alloc(h, obj) == Append(h, obj)
NewAddr(h) == Len(h) + 1

MapObj(m) == [t |-> "map", m |-> m]
IdentObj(ident, val) == [t |-> "ident", Ident |-> ident, Val |-> val]
VarObj(i, hole) == [t |-> "var", I |-> i, Hole |-> hole]
DeclObj(left, right) == [t |-> "decl", Left |-> left, Right |-> right]
ExprObj(action, entity, refs, params, aliases, holes) ==
    [t |-> "expr", Action |-> action, Entity |-> entity, Refs |-> refs,
     Params |-> params, Aliases |-> aliases, Holes |-> holes]
StmtObj(node, result, err) ==
    [t |-> "stmt", Node |-> node, Result |-> result, Line |-> <<>>, Err |-> err]

\* The entries of the map at address a; ranging over a nil map visits nothing.
MapAt(h, a) == IF a = 0 THEN <<>> ELSE h[a].m

MapSet(m, k, v) == [x \in (DOMAIN m) \cup {k} |-> IF x = k THEN v ELSE m[x]]
MapDel(m, k) == [x \in (DOMAIN m) \ {k} |-> m[x]]

\* The builder state: the AST under construction, the heap, and whether
\* the operation panicked.
World(ast, h) == [ast |-> ast, heap |-> h, panic |-> FALSE]
Panic(w) == [w EXCEPT !.panic = TRUE]

EmptyAST == [Statements |-> <<>>, currentStatement |-> 0, currentKey |-> <<>>]

-----------------------------------------------------------------------------
(* AST builder *)

\* currentExpression as it would be if it answered nil, instead of
\* panicking, for a statement that is neither an expression nor a declaration
currentExpressionOrNil(w) ==
    LET st == w.ast.currentStatement
    IN IF st = 0 THEN [panic |-> FALSE, expr |-> 0]
       ELSE LET n == w.heap[st].Node
            IN CASE w.heap[n].t = "expr" -> [panic |-> FALSE, expr |-> n]
                 [] w.heap[n].t = "decl" -> [panic |-> FALSE, expr |-> w.heap[n].Right]
                 [] OTHER -> [panic |-> FALSE, expr |-> 0]

\* func (s *AST) currentExpression: [panic, expr]
currentExpression(w) ==
    LET st == w.ast.currentStatement
    IN IF st = 0 THEN [panic |-> FALSE, expr |-> 0]
       ELSE LET n == w.heap[st].Node
            IN CASE w.heap[n].t = "expr" -> [panic |-> FALSE, expr |-> n]
                 [] w.heap[n].t = "decl" -> [panic |-> FALSE, expr |-> w.heap[n].Right]
                 [] OTHER -> [panic |-> TRUE, expr |-> 0]

\* func (s *AST) currentVarDecl: [panic, vnode]
currentVarDecl(w) ==
    LET st == w.ast.currentStatement
    IN IF st = 0 THEN [panic |-> FALSE, vnode |-> 0]
       ELSE LET n == w.heap[st].Node
            IN IF w.heap[n].t = "var" THEN [panic |-> FALSE, vnode |-> n]
               ELSE [panic |-> TRUE, vnode |-> 0]

\* addStatement as it would be if it put the new statement in front of the
\* others instead of after them
addStatementInFront(w, n) ==
    LET st == NewAddr(w.heap)
    IN [w EXCEPT !.heap = Alloc(w.heap, StmtObj(n, NilVal, NilVal)),
                 !.ast.currentStatement = st,
                 !.ast.Statements = <<st>> \o w.ast.Statements]

\* func (s *AST) addStatement, for a node already allocated at address n
addStatement(w, n) ==
    LET st == NewAddr(w.heap)
    IN [w EXCEPT !.heap = Alloc(w.heap, StmtObj(n, NilVal, NilVal)),
                 !.ast.currentStatement = st,
                 !.ast.Statements = Append(w.ast.Statements, st)]

AddAction(w, txt) ==
    LET ce == currentExpression(w)
    IN IF ce.panic THEN Panic(w)
       ELSE IF ce.expr = 0
       THEN LET n == NewAddr(w.heap)
                h1 == Alloc(w.heap, ExprObj(txt, <<>>, 0, 0, 0, 0))
            IN addStatement([w EXCEPT !.heap = h1], n)
       ELSE [w EXCEPT !.heap[ce.expr].Action = txt]

\* AddEntity as it would be if it assigned the Action field
AddEntityIntoAction(w, txt) ==
    LET ce == currentExpression(w)
    IN IF ce.panic \/ ce.expr = 0 THEN Panic(w)
       ELSE [w EXCEPT !.heap[ce.expr].Action = txt]

\* A nil expr is dereferenced: a runtime panic.
AddEntity(w, txt) ==
    LET ce == currentExpression(w)
    IN IF ce.panic \/ ce.expr = 0 THEN Panic(w)
       ELSE [w EXCEPT !.heap[ce.expr].Entity = txt]

AddDeclarationIdentifier(w, txt) ==
    LET left == NewAddr(w.heap)
        h1 == Alloc(w.heap, IdentObj(txt, NilVal))
        right == NewAddr(h1)
        h2 == Alloc(h1, ExprObj(<<>>, <<>>, 0, 0, 0, 0))
        decl == NewAddr(h2)
        h3 == Alloc(h2, DeclObj(left, right))
    IN addStatement([w EXCEPT !.heap = h3], decl)

\* LineDone as it would be if it cleared the key only
LineDoneKeepsStatement(w) == [w EXCEPT !.ast.currentKey = <<>>]

LineDone(w) ==
    [w EXCEPT !.ast.currentStatement = 0, !.ast.currentKey = <<>>]

AddVarIdentifier(w, txt) ==
    LET i == NewAddr(w.heap)
        h1 == Alloc(w.heap, IdentObj(txt, NilVal))
        hole == NewAddr(h1)
        h2 == Alloc(h1, MapObj(<<>>))
        vnode == NewAddr(h2)
        h3 == Alloc(h2, VarObj(i, hole))
    IN addStatement([w EXCEPT !.heap = h3], vnode)

\* vnode.I.Val = v for a literal already converted: r is [panic, v]
SetVarVal(w, r) ==
    LET cv == currentVarDecl(w)
    IN IF cv.panic \/ cv.vnode = 0 \/ r.panic THEN Panic(w)
       ELSE [w EXCEPT !.heap[w.heap[cv.vnode].I].Val = r.v]

AddVarValue(w, txt) == SetVarVal(w, [panic |-> FALSE, v |-> StrVal(txt)])
AddVarIntValue(w, txt) == SetVarVal(w, parseInt(txt))
AddVarCidrValue(w, txt, strict) == SetVarVal(w, parseCIDR(txt, strict))
AddVarIpValue(w, txt, strict) == SetVarVal(w, parseIP(txt, strict))

AddVarHoleValue(w, txt) ==
    LET cv == currentVarDecl(w)
    IN IF cv.panic \/ cv.vnode = 0 THEN Panic(w)
       ELSE LET vn == w.heap[cv.vnode]
            IN IF vn.Hole = 0 THEN Panic(w)
               ELSE [w EXCEPT !.heap[vn.Hole].m =
                                 MapSet(@, w.heap[vn.I].Ident, txt)]

AddParamKey(w, txt) ==
    LET ce == currentExpression(w)
    IN IF ce.panic \/ ce.expr = 0 THEN Panic(w)
       ELSE IF w.heap[ce.expr].Params = 0
       THEN LET a == NewAddr(w.heap)
                h4 == w.heap \o <<MapObj(<<>>), MapObj(<<>>), MapObj(<<>>), MapObj(<<>>)>>
            IN [w EXCEPT !.heap = [h4 EXCEPT ![ce.expr].Refs = a,
                                             ![ce.expr].Params = a + 1,
                                             ![ce.expr].Aliases = a + 2,
                                             ![ce.expr].Holes = a + 3],
                         !.ast.currentKey = txt]
       ELSE [w EXCEPT !.ast.currentKey = txt]

\* expr.<field>[s.currentKey] = v; an entry assigned in a nil map panics.
SetParam(w, field, r) ==
    LET ce == currentExpression(w)
    IN IF ce.panic \/ ce.expr = 0 \/ r.panic THEN Panic(w)
       ELSE LET m == w.heap[ce.expr][field]
            IN IF m = 0 THEN Panic(w)
               ELSE [w EXCEPT !.heap[m].m = MapSet(@, w.ast.currentKey, r.v)]

AddParamValue(w, txt) == SetParam(w, "Params", [panic |-> FALSE, v |-> StrVal(txt)])
AddParamIntValue(w, txt) == SetParam(w, "Params", parseInt(txt))
AddParamCidrValue(w, txt, strict) == SetParam(w, "Params", parseCIDR(txt, strict))
AddParamIpValue(w, txt, strict) == SetParam(w, "Params", parseIP(txt, strict))
\* AddParamRefValue as it would be if it stored the reference as a parameter
AddParamRefValueAsParam(w, txt) == SetParam(w, "Params", [panic |-> FALSE, v |-> StrVal(txt)])

AddParamRefValue(w, txt) == SetParam(w, "Refs", [panic |-> FALSE, v |-> txt])
AddParamAliasValue(w, txt) == SetParam(w, "Aliases", [panic |-> FALSE, v |-> txt])
AddParamHoleValue(w, txt) == SetParam(w, "Holes", [panic |-> FALSE, v |-> txt])

-----------------------------------------------------------------------------
(* Hole and reference resolution *)

\* The keys of map m whose value names an entry of fills.
Matched(m, fills) == {k \in DOMAIN m : m[k] \in DOMAIN fills}

\* ProcessHoles as it would be if it reported each fill under the name of the
\* hole, the way VarNode.ProcessHoles does, instead of under the parameter key
ExprProcessHolesByName(h, n, fills) ==
    LET holes == MapAt(h, h[n].Holes)
        R == Matched(holes, fills)
        h1 == IF h[n].Params = 0
              THEN [Alloc(h, MapObj(<<>>)) EXCEPT ![n].Params = NewAddr(h)]
              ELSE h
        pa == h1[n].Params
        params == h1[pa].m
    IN IF R = {} THEN [heap |-> h, processed |-> <<>>]
       ELSE [heap |-> [h1 EXCEPT
                         ![pa].m = [k \in (DOMAIN params) \cup R |->
                                      IF k \in R THEN fills[holes[k]] ELSE params[k]],
                         ![h[n].Holes].m = [k \in (DOMAIN holes) \ R |-> holes[k]]],
             processed |-> [name \in {holes[k] : k \in R} |-> fills[name]]]

\* func (n *ExpressionNode) ProcessHoles: [heap, processed]
ExprProcessHoles(h, n, fills) ==
    LET holes == MapAt(h, h[n].Holes)
        R == Matched(holes, fills)
        fresh == h[n].Params = 0
        h1 == IF fresh THEN [Alloc(h, MapObj(<<>>)) EXCEPT ![n].Params = NewAddr(h)]
              ELSE h
        pa == h1[n].Params
        params == h1[pa].m
    IN IF R = {} THEN [heap |-> h, processed |-> <<>>]
       ELSE [heap |-> [h1 EXCEPT
                         ![pa].m = [k \in (DOMAIN params) \cup R |->
                                      IF k \in R THEN fills[holes[k]] ELSE params[k]],
                         ![h[n].Holes].m = [k \in (DOMAIN holes) \ R |-> holes[k]]],
             processed |-> [k \in R |-> fills[holes[k]]]]

\* ProcessRefs as it would be without `delete(n.Refs, key)`
ExprProcessRefsKeepsRefs(h, n, fills) ==
    LET refs == MapAt(h, h[n].Refs)
        R == Matched(refs, fills)
        h1 == IF h[n].Params = 0
              THEN [Alloc(h, MapObj(<<>>)) EXCEPT ![n].Params = NewAddr(h)]
              ELSE h
        pa == h1[n].Params
        params == h1[pa].m
    IN IF R = {} THEN h
       ELSE [h1 EXCEPT
               ![pa].m = [k \in (DOMAIN params) \cup R |->
                            IF k \in R THEN fills[refs[k]] ELSE params[k]]]

\* func (n *ExpressionNode) ProcessRefs: the heap afterwards
ExprProcessRefs(h, n, fills) ==
    LET refs == MapAt(h, h[n].Refs)
        R == Matched(refs, fills)
        fresh == h[n].Params = 0
        h1 == IF fresh THEN [Alloc(h, MapObj(<<>>)) EXCEPT ![n].Params = NewAddr(h)]
              ELSE h
        pa == h1[n].Params
        params == h1[pa].m
    IN IF R = {} THEN h
       ELSE [h1 EXCEPT
               ![pa].m = [k \in (DOMAIN params) \cup R |->
                            IF k \in R THEN fills[refs[k]] ELSE params[k]],
               ![h[n].Refs].m = [k \in (DOMAIN refs) \ R |-> refs[k]]]

\* VarNode.ProcessHoles as it would be without `delete(n.Hole, key)`
VarProcessHolesKeepsHole(h, n, fills, last) ==
    LET hole == MapAt(h, h[n].Hole)
        R == Matched(hole, fills)
    IN IF R = {} THEN [heap |-> h, processed |-> <<>>]
       ELSE [heap |-> [h EXCEPT ![h[n].I].Val = fills[hole[last]]],
             processed |-> [name \in {hole[k] : k \in R} |-> fills[name]]]

\* func (n *VarNode) ProcessHoles: [heap, processed].  The range over n.Hole
\* visits the matching keys in an order the runtime picks; `last` is the one
\* it visits last, whose fill n.I.Val keeps.
VarProcessHoles(h, n, fills, last) ==
    LET hole == MapAt(h, h[n].Hole)
        R == Matched(hole, fills)
    IN IF R = {} THEN [heap |-> h, processed |-> <<>>]
       ELSE [heap |-> [h EXCEPT
                         ![h[n].I].Val = fills[hole[last]],
                         ![h[n].Hole].m = [k \in (DOMAIN hole) \ R |-> hole[k]]],
             processed |-> [name \in {hole[k] : k \in R} |-> fills[name]]]

-----------------------------------------------------------------------------
(* Clone *)

\* func (n *IdentifierNode) clone: [heap, addr]
IdentifierNodeClone(h, n) ==
    [heap |-> Alloc(h, IdentObj(h[n].Ident, h[n].Val)), addr |-> NewAddr(h)]

\* ExpressionNode.clone as it would be if it copied the four map references
\* instead of the entries
ExpressionNodeCloneShared(h, n) ==
    [heap |-> Alloc(h, ExprObj(h[n].Action, h[n].Entity, h[n].Refs, h[n].Params,
                               h[n].Aliases, h[n].Holes)),
     addr |-> NewAddr(h)]

\* func (n *ExpressionNode) clone: [heap, addr]
ExpressionNodeClone(h, n) ==
    LET a == NewAddr(h)
    IN [heap |-> h \o <<ExprObj(h[n].Action, h[n].Entity, a + 1, a + 2, a + 3, a + 4),
                        MapObj(MapAt(h, h[n].Refs)),
                        MapObj(MapAt(h, h[n].Params)),
                        MapObj(MapAt(h, h[n].Aliases)),
                        MapObj(MapAt(h, h[n].Holes))>>,
        addr |-> a]

\* func (n *VarNode) clone: [heap, addr]
VarNodeClone(h, n) ==
    LET i == IdentifierNodeClone(h, h[n].I)
        hole == NewAddr(i.heap)
        h2 == Alloc(i.heap, MapObj(<<>>))
    IN [heap |-> Alloc(h2, VarObj(i.addr, hole)), addr |-> NewAddr(h2)]

\* func (n *DeclarationNode) clone: [heap, addr]
DeclarationNodeClone(h, n) ==
    LET l == IdentifierNodeClone(h, h[n].Left)
        r == ExpressionNodeClone(l.heap, h[n].Right)
    IN [heap |-> Alloc(r.heap, DeclObj(l.addr, r.addr)), addr |-> NewAddr(r.heap)]

\* Node.clone, by dynamic type
NodeClone(h, n) ==
    CASE h[n].t = "expr" -> ExpressionNodeClone(h, n)
      [] h[n].t = "decl" -> DeclarationNodeClone(h, n)
      [] h[n].t = "var" -> VarNodeClone(h, n)
      [] OTHER -> IdentifierNodeClone(h, n)

\* func (s *Statement) clone: [heap, addr]
StatementClone(h, s) ==
    LET n == NodeClone(h, h[s].Node)
    IN [heap |-> Alloc(n.heap, StmtObj(n.addr, h[s].Result, h[s].Err)),
        addr |-> NewAddr(n.heap)]

\* The loop of AST.Clone over a.Statements[i..]: [heap, Statements]
RECURSIVE CloneStatements(_, _, _, _)
CloneStatements(h, stmts, i, out) ==
    IF i > Len(stmts) THEN [heap |-> h, Statements |-> out]
    ELSE LET c == StatementClone(h, stmts[i])
         IN CloneStatements(c.heap, stmts, i + 1, Append(out, c.addr))

\* func (a *AST) Clone: [heap, ast]
Clone(h, ast) ==
    LET c == CloneStatements(h, ast.Statements, 1, <<>>)
    IN [heap |-> c.heap, ast |-> [EmptyAST EXCEPT !.Statements = c.Statements]]

\* ExecutionStatements as it would be without the `continue` on a VarNode
ExecutionStatementsAll(h, ast) == ast.Statements

\* func (a *AST) ExecutionStatements
ExecutionStatements(h, ast) ==
    SelectSeq(ast.Statements, LAMBDA s : h[h[s].Node].t # "var")

-----------------------------------------------------------------------------
(* Rendering *)

RECURSIVE SetToSeq(_)
SetToSeq(S) ==
    IF S = {} THEN <<>>
    ELSE LET x == CHOOSE y \in S : TRUE IN <<x>> \o SetToSeq(S \ {x})

\* The orders in which `for k := range m` may visit a map with key set S
RangeOrders(S) ==
    {o \in [1..Cardinality(S) -> S] : \A k \in S : \E i \in DOMAIN o : o[i] = k}

\* func sortAndMap (and sortAndMapString, which wraps it), for the fn that
\* prints an entry as k=<open>v<close>, with the range loop visiting the
\* keys in the order `range`
sortAndMap(m, range, open, close) ==
    LET keys == SortStrings(range)
    IN [i \in 1..Len(keys) |-> keys[i] \o <<"=">> \o open \o m[keys[i]] \o close]

\* The range orders of the four maps of expression n
ExpressionRangeOrders(h, n) ==
    [Refs : RangeOrders(DOMAIN MapAt(h, h[n].Refs)),
     Params : RangeOrders(DOMAIN MapAt(h, h[n].Params)),
     Aliases : RangeOrders(DOMAIN MapAt(h, h[n].Aliases)),
     Holes : RangeOrders(DOMAIN MapAt(h, h[n].Holes))]

\* ExpressionNode.String as it would be without the sort of the combined list
ExpressionNodeStringUnsorted(h, n, range) ==
    LET values == MapAt(h, h[n].Params)
        refs == sortAndMap(MapAt(h, h[n].Refs), range.Refs, <<"$">>, <<>>)
        params == sortAndMap([k \in DOMAIN values |-> FormatV(values[k])],
                             range.Params, <<>>, <<>>)
        aliases == sortAndMap(MapAt(h, h[n].Aliases), range.Aliases, <<"@">>, <<>>)
        holes == sortAndMap(MapAt(h, h[n].Holes), range.Holes, <<"{">>, <<"}">>)
        all == refs \o params \o aliases \o holes
    IN h[n].Action \o <<" ">> \o h[n].Entity \o <<" ">> \o Join(all, <<" ">>)

\* func (n *ExpressionNode) String, with the range loops over the four maps
\* visiting their keys in the orders `range`
ExpressionNodeStringOver(h, n, range) ==
    LET values == MapAt(h, h[n].Params)
        refs == sortAndMap(MapAt(h, h[n].Refs), range.Refs, <<"$">>, <<>>)
        params == sortAndMap([k \in DOMAIN values |-> FormatV(values[k])],
                             range.Params, <<>>, <<>>)
        aliases == sortAndMap(MapAt(h, h[n].Aliases), range.Aliases, <<"@">>, <<>>)
        holes == sortAndMap(MapAt(h, h[n].Holes), range.Holes, <<"{">>, <<"}">>)
        all == SortStrings(refs \o params \o aliases \o holes)
    IN h[n].Action \o <<" ">> \o h[n].Entity \o <<" ">> \o Join(all, <<" ">>)

\* func (n *ExpressionNode) String, in one of the orders the range loops may
\* take
ExpressionNodeString(h, n) ==
    ExpressionNodeStringOver(h, n, CHOOSE r \in ExpressionRangeOrders(h, n) : TRUE)

\* func (n *VarNode) String
VarNodeString(h, n) ==
    <<"v", "a", "r", " ">> \o h[h[n].I].Ident \o <<" ", "=", " ">>
        \o FormatV(h[h[n].I].Val)

\* func (n *DeclarationNode) String
DeclarationNodeString(h, n) ==
    h[h[n].Left].Ident \o <<" ", "=", " ">> \o ExpressionNodeString(h, h[n].Right)

\* Node.String, by dynamic type
NodeString(h, n) ==
    CASE h[n].t = "expr" -> ExpressionNodeString(h, n)
      [] h[n].t = "decl" -> DeclarationNodeString(h, n)
      [] h[n].t = "var" -> VarNodeString(h, n)
      [] OTHER -> h[n].Ident

\* func (a *AST) String
ASTString(h, ast) ==
    Join([i \in 1..Len(ast.Statements) |-> NodeString(h, h[ast.Statements[i]].Node)],
         <<"\n">>)

-----------------------------------------------------------------------------
(* The parser state of Peg.Init: buffer, position, tokenIndex, tree, max.   *)
(* Every rule maps a parser state to the state it leaves, with `ok` the     *)
(* rule's result.                                                            *)

\* const endSymbol: the sentinel appended to the buffer
endSymbol == "endSymbol"

\* math.MaxInt16, the initial length of tree
MaxInt16 == 32767

Tok(rule, b, e) == [pegRule |-> rule, begin |-> b, end |-> e]

\* p.reset: the parser state over Buffer
Reset(Buffer) ==
    [buffer |-> IF Buffer = <<>> \/ Buffer[Len(Buffer)] # endSymbol
                THEN Append(Buffer, endSymbol) ELSE Buffer,
     position |-> 0, tokenIndex |-> 0,
     tree |-> <<>>, cap |-> MaxInt16,
     max |-> Tok("Unknown", 0, 0), ok |-> TRUE, tokens |-> <<>>]

\* buffer[position]
Cur(p) == p.buffer[p.position + 1]
\* position++
Adv(p) == [p EXCEPT !.position = @ + 1]
\* The restore as it would be if it reset the position only
BackKeepsTokenIndex(q, p0) ==
    [q EXCEPT !.position = p0.position, !.ok = TRUE]

\* position, tokenIndex = position0, tokenIndex0 (the tree and max stay as
\* the failed attempt left them)
Back(q, p0) ==
    [q EXCEPT !.position = p0.position, !.tokenIndex = p0.tokenIndex, !.ok = TRUE]
Fail(q) == [q EXCEPT !.ok = FALSE]

\* The add closure as it would be if it appended each token after all those
\* written so far, the ones of rolled-back attempts included
AddAppends(p, rule, begin) ==
    LET tok == Tok(rule, begin, p.position)
    IN [p EXCEPT
          !.tree = Append(p.tree, tok),
          !.cap = IF Len(p.tree) >= p.cap THEN 2 * p.cap ELSE p.cap,
          !.tokenIndex = Len(p.tree) + 1,
          !.max = IF begin # p.position /\ p.position > p.max.end THEN tok ELSE p.max,
          !.ok = TRUE]

\* The add closure as it would be if max were the span matched last
AddLastWins(p, rule, begin) ==
    LET tok == Tok(rule, begin, p.position)
    IN [p EXCEPT
          !.tree = IF p.tokenIndex < Len(p.tree)
                   THEN [p.tree EXCEPT ![p.tokenIndex + 1] = tok]
                   ELSE Append(p.tree, tok),
          !.cap = IF p.tokenIndex >= p.cap THEN 2 * p.cap ELSE p.cap,
          !.tokenIndex = p.tokenIndex + 1,
          !.max = IF begin # p.position THEN tok ELSE p.max,
          !.ok = TRUE]

\* The add closure with tokens32.Add.  `tree` holds the entries written so
\* far; the entries of the array beyond them are zero tokens.
Add(p, rule, begin) ==
    LET tok == Tok(rule, begin, p.position)
    IN [p EXCEPT
          !.tree = IF p.tokenIndex < Len(p.tree)
                   THEN [p.tree EXCEPT ![p.tokenIndex + 1] = tok]
                   ELSE Append(p.tree, tok),
          !.cap = IF p.tokenIndex >= p.cap THEN 2 * p.cap ELSE p.cap,
          !.tokenIndex = p.tokenIndex + 1,
          !.max = IF begin # p.position /\ p.position > p.max.end THEN tok ELSE p.max,
          !.ok = TRUE]

\* matchDot as it would be without the test for the end symbol
matchDotAny(p) == Adv(p)

\* matchDot
matchDot(p) == IF Cur(p) # endSymbol THEN Adv(p) ELSE Fail(p)

\* A run of character tests `buffer[position] != rune(c)`, each followed by
\* position++; on a mismatch the position stays where the run stopped.
RECURSIVE Lit(_, _)
Lit(p, w) ==
    IF w = <<>> THEN p
    ELSE IF Cur(p) # Head(w) THEN Fail(p)
    ELSE Lit(Adv(p), Tail(w))

-----------------------------------------------------------------------------
(* The forms of the code the generator emits for a grammar expression *)

\* a literal
Str(w) == [t |-> "lit", w |-> w]
\* a character class, emitted as a comparison chain or a switch
Class(set) == [t |-> "class", set |-> set]
\* `.`
AnyChar == [t |-> "dot"]
\* e1 e2 ...
Sequence(es) == [t |-> "seq", es |-> es]
\* e1 / e2 / ...
Choice(es) == [t |-> "choice", es |-> es]
\* switch buffer[position] { case c: cases[c]; default: default }
Switch(cases, default) == [t |-> "switch", cases |-> cases, default |-> default]
\* e*
Star(e) == [t |-> "star", e |-> e]
\* e+
Plus(e) == [t |-> "plus", e |-> e]
\* e?
Opt(e) == [t |-> "opt", e |-> e]
\* !e
Not(e) == [t |-> "not", e |-> e]
\* <e>
Text(e) == [t |-> "text", e |-> e]
\* { ... }: the marker of an action
Act(rule) == [t |-> "action", rule |-> rule]
\* a rule compiled to its own function in _rules
Rule(rule, e) == [t |-> "rule", rule |-> rule, e |-> e]
\* a rule compiled into the body of the rule that uses it
Inline(rule, e) == [t |-> "inline", rule |-> rule, e |-> e]

\* The failure label of a rule function as it would be without the
\* assignment to position and tokenIndex
RuleFailKeepsPosition(r, p0) == Fail(r)

\* The failure label of a rule function:
\* position, tokenIndex = position0, tokenIndex0; return false
RuleFail(r, p0) == Fail(Back(r, p0))

\* The code emitted for expression e, run in parser state p.  A failure
\* inside a rule body jumps to the nearest enclosing label, which restores
\* position and tokenIndex: here the failed state is handed back as it is
\* and the form owning that label restores it.
RECURSIVE Match(_, _), MatchSeq(_, _), MatchChoice(_, _, _), MatchStar(_, _)
Match(e, p) ==
    CASE e.t = "lit" -> Lit(p, e.w)
      [] e.t = "class" -> IF Cur(p) \in e.set THEN Adv(p) ELSE Fail(p)
      [] e.t = "dot" -> matchDot(p)
      [] e.t = "seq" -> MatchSeq(e.es, p)
      [] e.t = "choice" -> MatchChoice(e.es, p, p)
      [] e.t = "switch" ->
            Match(IF Cur(p) \in DOMAIN e.cases THEN e.cases[Cur(p)] ELSE e.default, p)
      [] e.t = "star" -> MatchStar(e.e, p)
      [] e.t = "plus" ->
            LET r == Match(e.e, p) IN IF r.ok THEN MatchStar(e.e, r) ELSE r
      [] e.t = "opt" ->
            LET r == Match(e.e, p) IN IF r.ok THEN r ELSE Back(r, p)
      [] e.t = "not" ->
            LET r == Match(e.e, p) IN IF r.ok THEN Fail(r) ELSE Back(r, p)
      [] e.t = "text" ->
            LET r == Match(e.e, p) IN IF r.ok THEN Add(r, "PegText", p.position) ELSE r
      [] e.t = "action" -> Add(p, e.rule, p.position)
      [] e.t = "rule" ->
            LET r == Match(e.e, p)
            IN IF r.ok THEN Add(r, e.rule, p.position) ELSE RuleFail(r, p)
      [] e.t = "inline" ->
            LET r == Match(e.e, p) IN IF r.ok THEN Add(r, e.rule, p.position) ELSE r

MatchSeq(es, p) ==
    IF es = <<>> THEN p
    ELSE LET r == Match(Head(es), p) IN IF r.ok THEN MatchSeq(Tail(es), r) ELSE r

\* p0 is the state at the entry of the choice; an alternative that fails is
\* rolled back to it, except the last one
MatchChoice(es, p, p0) ==
    LET r == Match(Head(es), p)
    IN IF r.ok \/ Len(es) = 1 THEN r ELSE MatchChoice(Tail(es), Back(r, p0), p0)

MatchStar(e, p) ==
    LET r == Match(e, p) IN IF r.ok THEN MatchStar(e, r) ELSE Back(r, p)

-----------------------------------------------------------------------------
(* The rules of the grammar *)

\* 27 Whitespace <- <(' ' / '\t')>
Whitespace == Rule("Whitespace", Choice(<<Str(<<" ">>), Str(<<"\t">>)>>))

\* 28 EndOfLine <- <(('\r' '\n') / '\n' / '\r')>
EndOfLine ==
    Rule("EndOfLine", Choice(<<Str(<<"\r", "\n">>), Str(<<"\n">>), Str(<<"\r">>)>>))

\* Space as it would be if it also matched nothing
SpaceOrNothing == Inline("Space", Opt(Choice(<<Whitespace, EndOfLine>>)))

\* 26 Space <- <(Whitespace / EndOfLine)>
Space == Inline("Space", Choice(<<Whitespace, EndOfLine>>))

\* 21 Spacing <- <Space*>
Spacing == Rule("Spacing", Star(Space))

\* 22 WhiteSpacing <- <Whitespace*>
WhiteSpacing == Rule("WhiteSpacing", Star(Whitespace))

\* 23 MustWhiteSpacing <- <Whitespace+>
MustWhiteSpacing == Rule("MustWhiteSpacing", Plus(Whitespace))

\* 24 Equal <- <(Spacing '=' Spacing)>
Equal == Rule("Equal", Sequence(<<Spacing, Str(<<"=">>), Spacing>>))

\* 9 Identifier <- <[a-zA-Z._-]+>
Identifier == Rule("Identifier", Plus(Class({".", "_", "-"} \cup Upper \cup Lower)))

\* 12 StringValue <- <[a-zA-Z0-9/:_.-]+>
StringValue ==
    Rule("StringValue",
         Plus(Class({"/", ":", "_", ".", "-"} \cup Digits \cup Upper \cup Lower)))

\* [0-9]+
DigitPlus == Plus(Class(Digits))

\* 14 IpValue <- <([0-9]+ . [0-9]+ . [0-9]+ . [0-9]+)>
IpValue ==
    Rule("IpValue", Sequence(<<DigitPlus, AnyChar, DigitPlus, AnyChar, DigitPlus,
                          AnyChar, DigitPlus>>))

\* 13 CidrValue <- <([0-9]+ . [0-9]+ . [0-9]+ . [0-9]+ '/' [0-9]+)>
CidrValue ==
    Rule("CidrValue", Sequence(<<DigitPlus, AnyChar, DigitPlus, AnyChar, DigitPlus,
                            AnyChar, DigitPlus, Str(<<"/">>), DigitPlus>>))

\* 15 IntValue <- <[0-9]+>
IntValue == Rule("IntValue", DigitPlus)

\* 16 IntRangeValue <- <([0-9]+ '-' [0-9]+)>
IntRangeValue == Rule("IntRangeValue", Sequence(<<DigitPlus, Str(<<"-">>), DigitPlus>>))

\* HoleValue as it would be without the capture of its identifier
HoleValueNoCapture ==
    Rule("HoleValue", Sequence(<<Str(<<"{">>), WhiteSpacing, Identifier,
                            WhiteSpacing, Str(<<"}">>)>>))

\* 19 HoleValue <- <('{' WhiteSpacing <Identifier> WhiteSpacing '}')>
HoleValue ==
    Rule("HoleValue", Sequence(<<Str(<<"{">>), WhiteSpacing, Text(Identifier),
                            WhiteSpacing, Str(<<"}">>)>>))

\* 17 RefValue <- <('$' <Identifier>)>
RefValue == Inline("RefValue", Sequence(<<Str(<<"$">>), Text(Identifier)>>))

\* 18 AliasValue <- <('@' <Identifier>)>
AliasValue == Inline("AliasValue", Sequence(<<Str(<<"@">>), Text(Identifier)>>))

\* 2 Action: 'create' / 'delete' / 'start' / a switch on the next character
Action ==
    Inline("Action",
           Choice(<<Str(<<"c", "r", "e", "a", "t", "e">>), Str(<<"d", "e", "l", "e", "t", "e">>), Str(<<"s", "t", "a", "r", "t">>),
                    Switch(("d" :> Str(<<"d", "e", "t", "a", "c", "h">>)) @@ ("c" :> Str(<<"c", "h", "e", "c", "k">>)) @@ ("a" :> Str(<<"a", "t", "t", "a", "c", "h">>))
                             @@ ("u" :> Str(<<"u", "p", "d", "a", "t", "e">>)),
                           Str(<<"s", "t", "o", "p">>))>>))

\* 3 Entity: six ordered words, then a switch on the next character
Entity ==
    Inline("Entity",
           Choice(<<Str(<<"v", "p", "c">>), Str(<<"s", "u", "b", "n", "e", "t">>), Str(<<"i", "n", "s", "t", "a", "n", "c", "e">>), Str(<<"r", "o", "l", "e">>), Str(<<"s", "e", "c", "u", "r", "i", "t", "y", "g", "r", "o", "u", "p">>), Str(<<"r", "o", "u", "t", "e", "t", "a", "b", "l", "e">>),
                    Switch(("s" :> Str(<<"s", "t", "o", "r", "a", "g", "e", "o", "b", "j", "e", "c", "t">>)) @@ ("b" :> Str(<<"b", "u", "c", "k", "e", "t">>)) @@ ("r" :> Str(<<"r", "o", "u", "t", "e">>))
                             @@ ("i" :> Str(<<"i", "n", "t", "e", "r", "n", "e", "t", "g", "a", "t", "e", "w", "a", "y">>)) @@ ("k" :> Str(<<"k", "e", "y", "p", "a", "i", "r">>))
                             @@ ("p" :> Str(<<"p", "o", "l", "i", "c", "y">>)) @@ ("g" :> Str(<<"g", "r", "o", "u", "p">>)) @@ ("u" :> Str(<<"u", "s", "e", "r">>))
                             @@ ("t" :> Str(<<"t", "a", "g", "s">>)),
                           Str(<<"v", "o", "l", "u", "m", "e">>))>>))

\* Value as it would be if the switch on the next character, with the string
\* token as its default, were tried before the numeric alternatives
ValueStringFirst ==
    Inline("Value",
           Choice(<<Switch(("$" :> Sequence(<<RefValue, Act("Action9")>>))
                             @@ ("@" :> Sequence(<<AliasValue, Act("Action8")>>))
                             @@ ("{" :> Sequence(<<HoleValue, Act("Action7")>>)),
                           Sequence(<<Text(StringValue), Act("Action14")>>)),
                    Sequence(<<Text(CidrValue), Act("Action10")>>),
                    Sequence(<<Text(IpValue), Act("Action11")>>),
                    Sequence(<<Text(IntRangeValue), Act("Action12")>>),
                    Sequence(<<Text(IntValue), Act("Action13")>>)>>))

\* 10 Value: CidrValue / IpValue / IntRangeValue / IntValue / a switch on the
\* next character over RefValue, AliasValue, HoleValue and StringValue
Value ==
    Inline("Value",
           Choice(<<Sequence(<<Text(CidrValue), Act("Action10")>>),
                    Sequence(<<Text(IpValue), Act("Action11")>>),
                    Sequence(<<Text(IntRangeValue), Act("Action12")>>),
                    Sequence(<<Text(IntValue), Act("Action13")>>),
                    Switch(("$" :> Sequence(<<RefValue, Act("Action9")>>))
                             @@ ("@" :> Sequence(<<AliasValue, Act("Action8")>>))
                             @@ ("{" :> Sequence(<<HoleValue, Act("Action7")>>)),
                           Sequence(<<Text(StringValue), Act("Action14")>>))>>))

\* 8 Param <- <(<Identifier> Action6 Equal Value WhiteSpacing)>
Param ==
    Inline("Param", Sequence(<<Text(Identifier), Act("Action6"), Equal, Value, WhiteSpacing>>))

\* 7 Params <- <Param+>
Params == Inline("Params", Plus(Param))

\* 6 Expr <- <(<Action> Action3 MustWhiteSpacing <Entity> Action4
\*             (MustWhiteSpacing Params)? Action5)>
Expr ==
    Rule("Expr", Sequence(<<Text(Action), Act("Action3"), MustWhiteSpacing, Text(Entity),
                       Act("Action4"), Opt(Sequence(<<MustWhiteSpacing, Params>>)),
                       Act("Action5")>>))

\* 25 Var <- <(Spacing ('v' 'a' 'r') Spacing)>
Var == Inline("Var", Sequence(<<Spacing, Str(<<"v", "a", "r">>), Spacing>>))

\* 11 VarValue: HoleValue / CidrValue / IpValue / IntRangeValue / IntValue /
\* StringValue
VarValue ==
    Inline("VarValue",
           Choice(<<Sequence(<<HoleValue, Act("Action15")>>),
                    Sequence(<<Text(CidrValue), Act("Action16")>>),
                    Sequence(<<Text(IpValue), Act("Action17")>>),
                    Sequence(<<Text(IntRangeValue), Act("Action18")>>),
                    Sequence(<<Text(IntValue), Act("Action19")>>),
                    Sequence(<<Text(StringValue), Act("Action20")>>)>>))

\* 4 VarDeclaration <- <(Var <Identifier> Action0 Equal VarValue Action1)>
VarDeclaration ==
    Inline("VarDeclaration", Sequence(<<Var, Text(Identifier), Act("Action0"), Equal,
                                   VarValue, Act("Action1")>>))

\* 5 Declaration <- <(<Identifier> Action2 Equal Expr)>
Declaration ==
    Inline("Declaration", Sequence(<<Text(Identifier), Act("Action2"), Equal, Expr>>))

\* (!EndOfLine .)*
RestOfLine == Star(Sequence(<<Not(EndOfLine), AnyChar>>))

\* 20 Comment <- <(('#' (!EndOfLine .)*) / ('/' '/' (!EndOfLine .)* Action21))>
Comment ==
    Inline("Comment",
           Choice(<<Sequence(<<Str(<<"#">>), RestOfLine>>),
                    Sequence(<<Str(<<"/", "/">>), RestOfLine, Act("Action21")>>)>>))

\* 1 Statement <- <(Spacing (VarDeclaration / Expr / Declaration / Comment)
\*                  Spacing EndOfLine*)>
Statement ==
    Inline("Statement", Sequence(<<Spacing,
                              Choice(<<VarDeclaration, Expr, Declaration, Comment>>),
                              Spacing, Star(EndOfLine)>>))

\* 29 EndOfFile <- <!.>
EndOfFile == Inline("EndOfFile", Not(AnyChar))

\* 0 Script <- <(Spacing Statement+ EndOfFile)>
Script == Rule("Script", Sequence(<<Spacing, Plus(Statement), EndOfFile>>))

\* The parse closure, for the root rule: p.tokens32 = tree, trimmed to
\* tokenIndex on a match.  After a failure p.tokens32 is the whole array;
\* `tokens` then holds its written part.
Parse(p) ==
    LET r == Match(Script, p)
    IN [r EXCEPT !.tokens = IF r.ok THEN SubSeq(r.tree, 1, r.tokenIndex) ELSE r.tree]

-----------------------------------------------------------------------------
(* Execute *)

ActionRules ==
    {"Action0", "Action1", "Action2", "Action3", "Action4", "Action5",
     "Action6", "Action7", "Action8", "Action9", "Action10", "Action11",
     "Action12", "Action13", "Action14", "Action15", "Action16", "Action17",
     "Action18", "Action19", "Action20", "Action21"}

\* The switch of Execute on an action token.  `strict` is the build's net
\* package (see OctetOk).
ExecuteAction(w, rule, txt, strict) ==
    CASE rule = "Action0" -> AddVarIdentifier(w, txt)
      [] rule = "Action1" -> LineDone(w)
      [] rule = "Action2" -> AddDeclarationIdentifier(w, txt)
      [] rule = "Action3" -> AddAction(w, txt)
      [] rule = "Action4" -> AddEntity(w, txt)
      [] rule = "Action5" -> LineDone(w)
      [] rule = "Action6" -> AddParamKey(w, txt)
      [] rule = "Action7" -> AddParamHoleValue(w, txt)
      [] rule = "Action8" -> AddParamAliasValue(w, txt)
      [] rule = "Action9" -> AddParamRefValue(w, txt)
      [] rule = "Action10" -> AddParamCidrValue(w, txt, strict)
      [] rule = "Action11" -> AddParamIpValue(w, txt, strict)
      [] rule = "Action12" -> AddParamValue(w, txt)
      [] rule = "Action13" -> AddParamIntValue(w, txt)
      [] rule = "Action14" -> AddParamValue(w, txt)
      [] rule = "Action15" -> AddVarHoleValue(w, txt)
      [] rule = "Action16" -> AddVarCidrValue(w, txt, strict)
      [] rule = "Action17" -> AddVarIpValue(w, txt, strict)
      [] rule = "Action18" -> AddVarValue(w, txt)
      [] rule = "Action19" -> AddVarIntValue(w, txt)
      [] rule = "Action20" -> AddVarValue(w, txt)
      [] OTHER -> LineDone(w)

\* The loop of Execute from token i + 1 up to the next action token:
\* [cursor, text, rule], rule "none" when the tokens are exhausted.
RECURSIVE NextAction(_, _, _, _)
NextAction(tokens, i, txt, buf) ==
    IF i >= Len(tokens) THEN [cursor |-> i, text |-> txt, rule |-> "none"]
    ELSE LET t == tokens[i + 1]
         IN IF t.pegRule = "PegText"
            THEN NextAction(tokens, i + 1, SubSeq(buf, t.begin + 1, t.end), buf)
            ELSE IF t.pegRule \in ActionRules
            THEN [cursor |-> i + 1, text |-> txt, rule |-> t.pegRule]
            ELSE NextAction(tokens, i + 1, txt, buf)

\* func (p *Peg) Execute, from token i + 1 to the end or to a panic: the
\* builder state it leaves.
RECURSIVE Execute(_, _, _, _, _, _)
Execute(w, tokens, i, txt, buf, strict) ==
    LET n == NextAction(tokens, i, txt, buf)
        w1 == ExecuteAction(w, n.rule, n.text, strict)
    IN IF n.rule = "none" THEN w
       ELSE IF w1.panic THEN w1
       ELSE Execute(w1, tokens, n.cursor, n.text, buf, strict)

\* Parsing a source text into a fresh AST, as the callers of Peg do: Init,
\* Parse and, when Parse returns no error, Execute.  [ok, panic, ast, heap]
ParseSource(src, strict) ==
    LET p == Parse(Reset(src))
        w == Execute(World(EmptyAST, <<>>), p.tokens, 0, <<>>, p.buffer, strict)
    IN IF ~p.ok THEN [ok |-> FALSE, panic |-> FALSE, ast |-> EmptyAST, heap |-> <<>>]
       ELSE [ok |-> TRUE, panic |-> w.panic, ast |-> w.ast, heap |-> w.heap]

-----------------------------------------------------------------------------
(* Inputs *)

\* create vpc
LineBare ==
    <<"c", "r", "e", "a", "t", "e", " ", "v", "p", "c">>

\* create vpc a=1 a=$y
LineDupKey ==
    <<"c", "r", "e", "a", "t", "e", " ", "v", "p", "c", " ", "a", "=", "1", " ", "a", "=", "$", "y">>

\* x = delete subnet a={y} b={z} c=@w d=$y e=$q
LineDecl ==
    <<"x", " ", "=", " ", "d", "e", "l", "e", "t", "e", " ", "s", "u", "b", "n", "e", "t", " ", "a", "=", "{", "y", "}", " ", "b", "=", "{", "z", "}", " ", "c", "=", "@", "w", " ", "d", "=", "$", "y", " ", "e", "=", "$", "q">>

\* var x = {y}
LineVarHole ==
    <<"v", "a", "r", " ", "x", " ", "=", " ", "{", "y", "}">>

\* // c
LineComment ==
    <<"/", "/", " ", "c">>

\* create vpc cidr=10.0.0.0/abc
LineBadCidr ==
    <<"c", "r", "e", "a", "t", "e", " ", "v", "p", "c", " ", "c", "i", "d", "r", "=", "1", "0", ".", "0", ".", "0", ".", "0", "/", "a", "b", "c">>

\* varx = 1
LineVarx ==
    <<"v", "a", "r", "x", " ", "=", " ", "1">>

\* var ip = {myip}
\* create instance subnet=$ip
ScriptVarRef ==
    <<"v", "a", "r", " ", "i", "p", " ", "=", " ", "{", "m", "y", "i", "p", "}", "\n", "c", "r", "e", "a", "t", "e", " ", "i", "n", "s", "t", "a", "n", "c", "e", " ", "s", "u", "b", "n", "e", "t", "=", "$", "i", "p">>

\* create vpc cidr=10.0.0.0/16
LineCidr ==
    <<"c", "r", "e", "a", "t", "e", " ", "v", "p", "c", " ", "c", "i", "d", "r", "=", "1", "0", ".", "0", ".", "0", ".", "0", "/", "1", "6">>

\* attach policy a=1.2.3.4 b=10.0.0.5/16 c=1-2 d=ab:c/d.
LineLiterals ==
    <<"a", "t", "t", "a", "c", "h", " ", "p", "o", "l", "i", "c", "y", " ", "a", "=", "1", ".", "2", ".", "3", ".", "4", " ", "b", "=", "1", "0", ".", "0", ".", "0", ".", "5", "/", "1", "6", " ", "c", "=", "1", "-", "2", " ", "d", "=", "a", "b", ":", "c", "/", "d", ".">>

\* The lines scripts of several lines are made of.
ScriptLines == {LineDupKey, LineDecl, LineVarHole}

\* Other sources, each a whole script.
OtherSources ==
    {LineBare,
     LineComment,
     LineLiterals,
     LineCidr,
     <<"u", "p", "d", "a", "t", "e", " ", "s", "e", "c", "u", "r", "i", "t", "y", "g", "r", "o", "u", "p", " ", "\t", " ", "b", " ", "=", " ", "0", "0", "7", " ", " ", "a", "=", "{", " ", "y", " ", "}">>,
     <<"v", "a", "r", " ", "x", " ", "=", " ", "5">>,
     <<"v", "a", "r", " ", "x", " ", "=", " ", "a", ".", "b">>,
     <<"v", "a", "r", " ", "x", " ", "=", " ", "1", "0", ".", "9", ".", "8", ".", "7", "/", "8">>,
     <<"v", "a", "r", " ", "x", " ", "=", " ", "1", ".", "2", ".", "3", ".", "4">>,
     <<"v", "a", "r", " ", "x", " ", "=", " ", "1", "-", "2">>,
     <<"#", " ", "c">>,
     <<"\n", "c", "r", "e", "a", "t", "e", " ", "v", "p", "c", " ", "\n", "\n", "/", "/", " ", "c", "\r", "\n", "v", "a", "r", " ", "x", " ", "=", " ", "5", "\n", "s", "t", "o", "p", " ", "i", "n", "s", "t", "a", "n", "c", "e", " ", "i", "d", "=", "$", "y", "\r">>,
     LineVarx,
     ScriptVarRef,
     <<"c", "r", "e", "a", "t", "e", " ", "v", "p", "c", " ", "a", "=", "1", " ", "/", "/", " ", "c", "\n", "#", " ", "d", "\n", "s", "t", "o", "p", " ", "i", "n", "s", "t", "a", "n", "c", "e">>,
     <<"c", "r", "e", "a", "t", "e">>,
     <<"c", "r", "e", "a", "t", "e", " ", "v", "p", "c", " ", "a", "=", "1", " ", "?">>,
     <<"f", "o", "o", " ", "=", " ", "b", "a", "r">>,
     <<"v", "a", "r", " ", "x", " ", "=", " ", "{", "y">>,
     <<"c", "r", "e", "a", "t", "e", " ", "v", "p", "c", "\n", "?">>,
     <<>>,
     <<"/", " ", "c">>,
     <<"v", "a", "r", "i", "a", "b", "l", "e", " ", "=", " ", "c", "r", "e", "a", "t", "e", " ", "v", "p", "c">>,
     <<"c", "r", "e", "a", "t", "e", " ", "v", "p", "c", " ", "a", "=", "1", "0", "a", "b", "c">>,
     <<"c", "r", "e", "a", "t", "e", " ", "v", "p", "c", " ", "a", "=", "9", "9", "9", ".", "1", ".", "1", ".", "1">>,
     <<"c", "r", "e", "a", "t", "e", " ", "v", "p", "c", " ", "a", "=", "1", ".", "2", ".", "3", ".", "4", "/", "3", "3">>,
     <<"c", "r", "e", "a", "t", "e", " ", "v", "p", "c", " ", "a", "=", "1", "x", "2", "x", "3", "x", "4">>,
     <<"c", "r", "e", "a", "t", "e", " ", "v", "p", "c", " ", "a", "=", "9", "9", "9", "9", "9", "9", "9", "9", "9", "9", "9", "9", "9", "9", "9", "9", "9", "9", "9", "9">>,
     <<"v", "a", "r", " ", "x", " ", "=", " ", "1", ".", "2", ".", "3", ".", "4", "/", "9", "9">>,
     <<"v", "a", "r", " ", "x", " ", "=", " ", "3", "0", "0", ".", "1", ".", "1", ".", "1">>,
     <<"c", "r", "e", "a", "t", "e", " ", "=", " ", "c", "r", "e", "a", "t", "e", " ", "v", "p", "c">>,
     <<"c", "r", "e", "a", "t", "e", " ", "v", "p", "c", " ", "a", "=", "1", "0", "b", "=", "2">>,
     <<"c", "r", "e", "a", "t", "e", " ", "v", "p", "c", " ", "a", "=", "1", " ", "s", "t", "o", "p", " ", "i", "n", "s", "t", "a", "n", "c", "e">>,
     <<"v", "a", "r", " ", "x", " ", "=", " ", "9", "9", "9", "9", "9", "9", "9", "9", "9", "9", "9", "9", "9", "9", "9", "9", "9", "9", "9", "9">>,
     <<"c", "r", "e", "a", "t", "e", " ", "v", "p", "c", " ", "a", "=", "0", "1", ".", "2", ".", "3", ".", "4">>,
     LineBadCidr}

\* A script has at most MaxLines lines of ScriptLines.
MaxLines == 2

\* At most MaxOps operations are invoked on the ASTs once Execute returned.
MaxOps == 3

RECURSIVE ScriptsOf(_)
ScriptsOf(n) ==
    IF n = 1 THEN ScriptLines
    ELSE LET shorter == ScriptsOf(n - 1)
         IN shorter \cup {s \o <<"\n">> \o l : s \in shorter, l \in ScriptLines}

Inputs == ScriptsOf(MaxLines) \cup OtherSources

\* The fill maps handed to ProcessHoles and ProcessRefs.
Fills ==
    {(<<"y">> :> StrVal(<<"s">>)),
     (<<"y">> :> IntVal(<<"7">>)) @@ (<<"z">> :> StrVal(<<"t">>))
        @@ (<<"m", "y", "i", "p">> :> StrVal(<<"n">>)) @@ (<<"i", "p">> :> StrVal(<<"n">>))}

-----------------------------------------------------------------------------
(* The state machine: a source is parsed, executed into asts[1], and the    *)
(* resulting AST is then cloned, resolved and listed by its users.          *)

Call(op, target, node, arg, ret) ==
    [op |-> op, target |-> target, node |-> node, arg |-> arg, ret |-> ret,
     again |-> call.op = op /\ call.target = target /\ call.node = node
               /\ call.arg = arg]

\* The nodes of an AST that have ProcessHoles: its expressions (a
\* declaration's right-hand side included) and its vars.
ProcessNodes(h, ast) ==
    {IF h[h[s].Node].t = "decl" THEN h[h[s].Node].Right ELSE h[s].Node :
        s \in {ast.Statements[i] : i \in 1..Len(ast.Statements)}}

Init ==
    /\ \E src \in Inputs : peg = Reset(src)
    /\ asts = <<EmptyAST>>
    /\ heap = <<>>
    /\ pc = "init"
    /\ cursor = 0
    /\ text = <<>>
    /\ call = [op |-> "Init", target |-> 0, node |-> 0, arg |-> <<>>,
               ret |-> <<>>, again |-> FALSE]
    /\ nops = 0

\* p.Parse()
DoParse ==
    /\ pc = "init"
    /\ peg' = Parse(peg)
    /\ pc' = IF peg'.ok THEN "parsed" ELSE "failed"
    /\ call' = Call("Parse", 0, 0, <<>>, <<>>)
    /\ UNCHANGED <<asts, heap, cursor, text, nops>>

\* p.Execute(), after a Parse that returned no error: one step runs the loop
\* up to and including the next builder operation, or to its end.
DoExecute ==
    /\ pc = "parsed"
    /\ LET n == NextAction(peg.tokens, cursor, text, peg.buffer)
       IN /\ cursor' = n.cursor
          /\ text' = n.text
          /\ IF n.rule = "none"
             THEN /\ pc' = "executed"
                  /\ call' = Call("Execute", 1, 0, <<>>, <<>>)
                  /\ UNCHANGED <<asts, heap>>
             ELSE \E strict \in BOOLEAN :
                    LET w == ExecuteAction(World(asts[1], heap), n.rule, n.text, strict)
                    IN /\ asts' = [asts EXCEPT ![1] = w.ast]
                       /\ heap' = w.heap
                       /\ pc' = IF w.panic THEN "panic" ELSE "parsed"
                       /\ call' = Call(n.rule, 1, 0, n.text, <<>>)
    /\ UNCHANGED <<peg, nops>>

\* b := asts[i].Clone()
DoClone ==
    /\ pc = "executed"
    /\ nops < MaxOps
    /\ \E i \in 1..Len(asts) :
         LET c == Clone(heap, asts[i])
         IN /\ asts' = Append(asts, c.ast)
            /\ heap' = c.heap
            /\ call' = Call("Clone", i, 0, <<>>, Len(asts) + 1)
    /\ nops' = nops + 1
    /\ UNCHANGED <<peg, pc, cursor, text>>

\* n.ProcessHoles(fills) for an expression or var n of some AST
DoProcessHoles ==
    /\ pc = "executed"
    /\ nops < MaxOps
    /\ \E i \in 1..Len(asts) : \E n \in ProcessNodes(heap, asts[i]) : \E fills \in Fills :
         IF heap[n].t = "expr"
         THEN LET r == ExprProcessHoles(heap, n, fills)
              IN /\ heap' = r.heap
                 /\ call' = Call("ProcessHoles", i, n, fills, r.processed)
         ELSE LET R == Matched(MapAt(heap, heap[n].Hole), fills)
              IN \E last \in (IF R = {} THEN {<<>>} ELSE R) :
                   LET r == VarProcessHoles(heap, n, fills, last)
                   IN /\ heap' = r.heap
                      /\ call' = Call("ProcessHoles", i, n, fills, r.processed)
    /\ nops' = nops + 1
    /\ UNCHANGED <<peg, asts, pc, cursor, text>>

\* n.ProcessRefs(fills) for an expression n of some AST
DoProcessRefs ==
    /\ pc = "executed"
    /\ nops < MaxOps
    /\ \E i \in 1..Len(asts) : \E n \in ProcessNodes(heap, asts[i]) : \E fills \in Fills :
         /\ heap[n].t = "expr"
         /\ heap' = ExprProcessRefs(heap, n, fills)
         /\ call' = Call("ProcessRefs", i, n, fills, <<>>)
    /\ nops' = nops + 1
    /\ UNCHANGED <<peg, asts, pc, cursor, text>>

\* Statement.Action as it would be if it answered the empty string for a
\* statement that is neither an expression nor a declaration
StatementActionNoPanic(h, s) ==
    LET n == h[s].Node
    IN CASE h[n].t = "expr" -> [panic |-> FALSE, v |-> h[n].Action]
         [] h[n].t = "decl" -> [panic |-> FALSE, v |-> h[h[n].Right].Action]
         [] OTHER -> [panic |-> FALSE, v |-> <<>>]

\* func (s *Statement) Action / Entity / Params, for the statement at address
\* s: [panic, v], v the field of the expression (for Params the map itself,
\* by its address)
StatementAction(h, s) ==
    LET n == h[s].Node
    IN CASE h[n].t = "expr" -> [panic |-> FALSE, v |-> h[n].Action]
         [] h[n].t = "decl" -> [panic |-> FALSE, v |-> h[h[n].Right].Action]
         [] OTHER -> [panic |-> TRUE, v |-> <<>>]

StatementEntity(h, s) ==
    LET n == h[s].Node
    IN CASE h[n].t = "expr" -> [panic |-> FALSE, v |-> h[n].Entity]
         [] h[n].t = "decl" -> [panic |-> FALSE, v |-> h[h[n].Right].Entity]
         [] OTHER -> [panic |-> TRUE, v |-> <<>>]

StatementParams(h, s) ==
    LET n == h[s].Node
    IN CASE h[n].t = "expr" -> [panic |-> FALSE, v |-> h[n].Params]
         [] h[n].t = "decl" -> [panic |-> FALSE, v |-> h[h[n].Right].Params]
         [] OTHER -> [panic |-> TRUE, v |-> <<>>]

\* asts[i].Statements[k].Action(), .Entity() or .Params(); a panic ends the
\* program.  The accessors only read: they are not counted in nops.  They
\* are called under SpecAccessors, below.
DoAccessor ==
    /\ pc = "executed"
    /\ \E i \in 1..Len(asts) : \E k \in 1..Len(asts[i].Statements) :
       \E op \in {"Statement.Action", "Statement.Entity", "Statement.Params"} :
         LET s == asts[i].Statements[k]
             r == CASE op = "Statement.Action" -> StatementAction(heap, s)
                    [] op = "Statement.Entity" -> StatementEntity(heap, s)
                    [] OTHER -> StatementParams(heap, s)
         IN /\ call' = Call(op, i, s, <<>>, r.v)
            /\ pc' = IF r.panic THEN "panic" ELSE pc
    /\ UNCHANGED <<peg, asts, heap, cursor, text, nops>>

\* tokens32.AST: the node of token i is named i and 0 is nil; `stack` lists
\* the elements from the top down.  The body of the inner loop as it would be
\* if a popped node were not linked to the ones popped before it
ASTAttachUnlinked(st, i) ==
    [st EXCEPT !.up[i] = Head(st.stack), !.stack = Tail(st.stack)]

\* The body of the inner loop: the top node gets the new node's children as
\* its siblings, becomes the new node's first child and is popped.
ASTAttach(st, i) ==
    [st EXCEPT !.next[Head(st.stack)] = st.up[i],
               !.up[i] = Head(st.stack),
               !.stack = Tail(st.stack)]

RECURSIVE ASTPop(_, _, _)
\* The inner loop for the new node i
ASTPop(tokens, st, i) ==
    IF /\ st.stack # <<>>
       /\ tokens[Head(st.stack)].begin >= tokens[i].begin
       /\ tokens[Head(st.stack)].end <= tokens[i].end
    THEN ASTPop(tokens, ASTAttach(st, i), i)
    ELSE st

\* One iteration of the loop over the tokens, for token i
ASTStep(tokens, st, i) ==
    IF tokens[i].begin = tokens[i].end THEN st
    ELSE LET popped == ASTPop(tokens, [st EXCEPT !.nodes = @ \cup {i}], i)
         IN [popped EXCEPT !.stack = <<i>> \o @]

RECURSIVE ASTLoop(_, _, _, _)
\* The iterations of the loop for the tokens lo..hi in their order.  The
\* range is halved and the first half is evaluated (its stack is looked at)
\* before the second begins, which keeps the evaluation shallow.
ASTLoop(tokens, st, lo, hi) ==
    IF lo > hi THEN st
    ELSE IF lo = hi THEN ASTStep(tokens, st, lo)
    ELSE LET first == ASTLoop(tokens, st, lo, (lo + hi) \div 2)
         IN IF Len(first.stack) >= 0
            THEN ASTLoop(tokens, first, (lo + hi) \div 2 + 1, hi)
            ELSE first

\* t.AST(): the node returned, with the nodes made and their links
AST(tokens) ==
    LET st == ASTLoop(tokens,
                      [nodes |-> {}, stack |-> <<>>,
                       up |-> [i \in 1..Len(tokens) |-> 0],
                       next |-> [i \in 1..Len(tokens) |-> 0]], 1, Len(tokens))
    IN [root |-> IF st.stack # <<>> THEN Head(st.stack) ELSE 0,
        nodes |-> st.nodes, up |-> st.up, next |-> st.next]

\* p.AST(), after a Parse that returned no error
DoAST ==
    /\ pc = "parsed"
    /\ call.op = "Parse"
    /\ call' = Call("AST", 0, 0, <<>>, AST(peg.tokens))
    /\ UNCHANGED <<peg, asts, heap, pc, cursor, text, nops>>

\* asts[i].ExecutionStatements()
DoExecutionStatements ==
    /\ pc = "executed"
    /\ nops < MaxOps
    /\ \E i \in 1..Len(asts) :
         call' = Call("ExecutionStatements", i, 0, <<>>, ExecutionStatements(heap, asts[i]))
    /\ nops' = nops + 1
    /\ UNCHANGED <<peg, asts, heap, pc, cursor, text>>

Next ==
    \/ DoParse
    \/ DoExecute
    \/ DoClone
    \/ DoProcessHoles
    \/ DoProcessRefs
    \/ DoExecutionStatements

Spec == Init /\ [][Next]_vars

\* A source is parsed and executed, and the accessors of its statements are
\* then called.
AccessorsNext ==
    \/ DoParse
    \/ DoExecute
    \/ DoAccessor

SpecAccessors == Init /\ [][AccessorsNext]_vars

\* A client that parses and takes the syntax tree of the tokens
ASTNext ==
    \/ DoParse
    \/ DoAST

SpecAST == Init /\ [][ASTNext]_vars

-----------------------------------------------------------------------------
(* The builder driven directly: the operations of AST are called on an     *)
(* empty AST in any order, as a client other than Peg.Execute may do.       *)

\* At most MaxBuild builder operations are called.
MaxBuild == 3

\* The texts the operations are given
BuildTexts == {<<"k">>, <<"1">>}

\* One action of Execute for each builder operation: AddVarIdentifier,
\* LineDone, AddDeclarationIdentifier, AddAction, AddEntity, AddParamKey,
\* AddParamHoleValue, AddParamAliasValue, AddParamRefValue, AddParamCidrValue,
\* AddParamIpValue, AddParamIntValue, AddParamValue, AddVarHoleValue,
\* AddVarCidrValue, AddVarIpValue, AddVarIntValue, AddVarValue
BuilderRules ==
    {"Action0", "Action1", "Action2", "Action3", "Action4", "Action6",
     "Action7", "Action8", "Action9", "Action10", "Action11", "Action13",
     "Action14", "Action15", "Action16", "Action17", "Action19", "Action20"}

BuildInit ==
    /\ peg = Reset(<<>>)
    /\ asts = <<EmptyAST>>
    /\ heap = <<>>
    /\ pc = "build"
    /\ cursor = 0
    /\ text = <<>>
    /\ call = [op |-> "Init", target |-> 0, node |-> 0, arg |-> <<>>,
               ret |-> <<>>, again |-> FALSE]
    /\ nops = 0

\* One builder operation called on asts[1]; a panic ends the program.
DoBuild ==
    /\ pc = "build"
    /\ nops < MaxBuild
    /\ \E rule \in BuilderRules : \E txt \in BuildTexts : \E strict \in BOOLEAN :
         LET w == ExecuteAction(World(asts[1], heap), rule, txt, strict)
         IN /\ asts' = [asts EXCEPT ![1] = w.ast]
            /\ heap' = w.heap
            /\ pc' = IF w.panic THEN "panic" ELSE "build"
            /\ call' = Call(rule, 1, 0, txt, <<>>)
    /\ nops' = nops + 1
    /\ UNCHANGED <<peg, cursor, text>>

BuildNext == DoBuild

SpecBuilder == BuildInit /\ [][BuildNext]_vars

-----------------------------------------------------------------------------
(* What the properties below observe of an AST *)

\* The expression nodes on the heap
ExprNodes == {n \in 1..Len(heap) : heap[n].t = "expr"}

\* The entries of the four maps of expression n and of the Hole map of var n
RefsOf(h, n) == MapAt(h, h[n].Refs)
ParamsOf(h, n) == MapAt(h, h[n].Params)
AliasesOf(h, n) == MapAt(h, h[n].Aliases)
HolesOf(h, n) == MapAt(h, h[n].Holes)
HoleOf(h, n) == MapAt(h, h[n].Hole)

\* The content of a node: its fields with every map given by its entries
ExprContent(h, n) ==
    [t |-> "expr", Action |-> h[n].Action, Entity |-> h[n].Entity,
     Refs |-> RefsOf(h, n), Params |-> ParamsOf(h, n),
     Aliases |-> AliasesOf(h, n), Holes |-> HolesOf(h, n)]

NodeContent(h, n) ==
    CASE h[n].t = "expr" -> ExprContent(h, n)
      [] h[n].t = "decl" ->
            [t |-> "decl", Left |-> h[h[n].Left].Ident,
             Right |-> ExprContent(h, h[n].Right)]
      [] h[n].t = "var" ->
            [t |-> "var", Ident |-> h[h[n].I].Ident, Val |-> h[h[n].I].Val,
             Hole |-> HoleOf(h, n)]
      [] OTHER -> [t |-> "ident", Ident |-> h[n].Ident, Val |-> h[n].Val]

\* The content of an AST: the content of its statements, in order
Content(h, ast) ==
    [i \in 1..Len(ast.Statements) |->
        LET s == h[ast.Statements[i]]
        IN [Node |-> NodeContent(h, s.Node), Result |-> s.Result, Err |-> s.Err]]

\* The keys of map m whose name has a fill
Filled(m, fills) == {k \in DOMAIN m : m[k] \in DOMAIN fills}

\* Map m after its keys K were set to the fills of the names `from` gives them
Moved(m, K, from, fills) ==
    [k \in (DOMAIN m) \cup K |-> IF k \in K THEN fills[from[k]] ELSE m[k]]

\* Map m without its keys K
Without(m, K) == [k \in (DOMAIN m) \ K |-> m[k]]

-----------------------------------------------------------------------------
(* Properties *)

\* C1: no parameter key is in more than one of the maps Params, Refs,
\* Aliases and Holes of an expression, whatever the builder and the Process
\* operations did to it.
C1_KeysExclusive ==
    \A n \in ExprNodes :
        LET keys == <<DOMAIN ParamsOf(heap, n), DOMAIN RefsOf(heap, n),
                      DOMAIN AliasesOf(heap, n), DOMAIN HolesOf(heap, n)>>
        IN \A i, j \in 1..4 : i < j => keys[i] \cap keys[j] = {}

\* C2: a ProcessHoles or ProcessRefs call on a node of one AST leaves the
\* content of every other AST, its source and its clones, as it was.
C2_CloneIndependence ==
    [][call'.op \in {"ProcessHoles", "ProcessRefs"} =>
          \A j \in 1..Len(asts) :
              j # call'.target => Content(heap', asts[j]) = Content(heap, asts[j])]_vars

\* A hole of a clone was filled while the AST it was cloned from still holds it.
C2_Witness ==
    /\ call.op = "ProcessHoles"
    /\ call.target > 1
    /\ call.ret # <<>>
    /\ \E n \in ProcessNodes(heap, asts[1]) :
          heap[n].t = "expr" /\ <<"a">> \in DOMAIN HolesOf(heap, n)

\* C3: Clone returns an AST whose statements have, in order, the content of
\* the source's statements, the Hole map of each Var included.
C3_CloneContent ==
    call.op = "Clone" => Content(heap, asts[call.ret]) = Content(heap, asts[call.target])

\* C4: ExpressionNode.ProcessHoles moves exactly the keys of Holes whose hole
\* name has a fill into Params, leaves the other holes, Refs and Aliases as
\* they were, and returns the moved keys with their fills.
C4_ExprProcessHoles ==
    [][(call'.op = "ProcessHoles" /\ heap[call'.node].t = "expr") =>
          LET n == call'.node
              fills == call'.arg
              holes == HolesOf(heap, n)
              K == Filled(holes, fills)
          IN /\ ParamsOf(heap', n) = Moved(ParamsOf(heap, n), K, holes, fills)
             /\ HolesOf(heap', n) = Without(holes, K)
             /\ RefsOf(heap', n) = RefsOf(heap, n)
             /\ AliasesOf(heap', n) = AliasesOf(heap, n)
             /\ call'.ret = [k \in K |-> fills[holes[k]]]]_vars

\* ProcessHoles filled one hole of an expression and left another one.
C4_Witness ==
    /\ call.op = "ProcessHoles"
    /\ heap[call.node].t = "expr"
    /\ DOMAIN call.ret = {<<"a">>}
    /\ DOMAIN HolesOf(heap, call.node) = {<<"b">>}
    /\ ParamsOf(heap, call.node)[<<"a">>] = call.arg[<<"y">>]

\* C5: VarNode.ProcessHoles on a Var whose hole has a fill binds the fill,
\* deletes the key from the Hole map and returns the fill under the key of
\* the Hole map; without a fill it changes nothing and returns nothing.
C5_VarProcessHoles ==
    [][(call'.op = "ProcessHoles" /\ heap[call'.node].t = "var") =>
          LET n == call'.node
              fills == call'.arg
              hole == HoleOf(heap, n)
              K == Filled(hole, fills)
          IN IF K = {}
             THEN /\ heap'[heap[n].I].Val = heap[heap[n].I].Val
                  /\ HoleOf(heap', n) = hole
                  /\ call'.ret = <<>>
             ELSE /\ \E k \in K : heap'[heap[n].I].Val = fills[hole[k]]
                  /\ HoleOf(heap', n) = Without(hole, K)
                  /\ call'.ret = [k \in K |-> fills[hole[k]]]]_vars

\* C6: ExpressionNode.ProcessRefs moves exactly the keys of Refs whose
\* reference name has a fill into Params, leaves the other refs, Holes,
\* Aliases, Action and Entity as they were.
C6_ExprProcessRefs ==
    [][call'.op = "ProcessRefs" =>
          LET n == call'.node
              fills == call'.arg
              refs == RefsOf(heap, n)
              K == Filled(refs, fills)
          IN /\ ParamsOf(heap', n) = Moved(ParamsOf(heap, n), K, refs, fills)
             /\ RefsOf(heap', n) = Without(refs, K)
             /\ HolesOf(heap', n) = HolesOf(heap, n)
             /\ AliasesOf(heap', n) = AliasesOf(heap, n)
             /\ heap'[n].Action = heap[n].Action
             /\ heap'[n].Entity = heap[n].Entity]_vars

\* ProcessRefs moved the ref d=$y and left the ref e=$q, which has no fill.
C6_Witness ==
    /\ call.op = "ProcessRefs"
    /\ DOMAIN RefsOf(heap, call.node) = {<<"e">>}
    /\ <<"d">> \in DOMAIN ParamsOf(heap, call.node)
    /\ ParamsOf(heap, call.node)[<<"d">>] = call.arg[<<"y">>]

\* C7: a ProcessHoles or ProcessRefs call that repeats the call before it, on
\* the same node with the same fills, changes nothing, and the repeated
\* ProcessHoles returns an empty map.
C7_Idempotent ==
    [][(call'.again /\ call'.op \in {"ProcessHoles", "ProcessRefs"}) =>
          /\ NodeContent(heap', call'.node) = NodeContent(heap, call'.node)
          /\ heap' = heap
          /\ (call'.op = "ProcessHoles" => call'.ret = <<>>)]_vars

\* ProcessHoles was repeated on a Var whose hole the first call had filled.
C7_Witness ==
    /\ call.again
    /\ call.op = "ProcessHoles"
    /\ heap[call.node].t = "var"
    /\ heap[heap[call.node].I].Val = call.arg[<<"y">>]
    /\ HoleOf(heap, call.node) = <<>>

\* C8: ExecutionStatements returns the statements whose node is not a Var,
\* each once and in the order of AST.Statements, and changes nothing.
C8_ExecutionStatements ==
    [][call'.op = "ExecutionStatements" =>
          LET stmts == asts[call'.target].Statements
              out == call'.ret
              At(s) == CHOOSE i \in 1..Len(stmts) : stmts[i] = s
          IN /\ {out[i] : i \in 1..Len(out)}
                    = {stmts[i] : i \in {j \in 1..Len(stmts) :
                                           heap[heap[stmts[j]].Node].t # "var"}}
             /\ \A i, j \in 1..Len(out) : i < j => At(out[i]) < At(out[j])
             /\ asts' = asts
             /\ heap' = heap]_vars

\* ExecutionStatements left a Var out and kept two other statements.
C8_Witness ==
    /\ call.op = "ExecutionStatements"
    /\ Len(call.ret) = 2
    /\ Len(asts[call.target].Statements) = 3

\* C9: the rendering of an AST built from a source that parsed, with at
\* least one statement in it, is a source that parses, and the AST built from
\* it renders to the same text.
C9_RoundTrip ==
    (call.op = "Execute" /\ asts[1].Statements # <<>>) =>
        \A strict \in BOOLEAN :
            LET rendered == ASTString(heap, asts[1])
                again == ParseSource(rendered, strict)
            IN /\ again.ok
               /\ ~again.panic
               /\ ASTString(again.heap, again.ast) = rendered

\* C10: Parse succeeds only with the whole input consumed, the Script token
\* spanning it; when it fails, position and token index are back at 0 and no
\* statement of the script has been built.
C10_ParseWhole ==
    /\ (pc = "failed" =>
            /\ ~peg.ok
            /\ peg.position = 0
            /\ peg.tokenIndex = 0
            /\ asts = <<EmptyAST>>)
    /\ (pc \in {"parsed", "executed", "panic"} =>
            /\ peg.ok
            /\ peg.buffer[peg.position + 1] = endSymbol
            /\ peg.position = Len(peg.buffer) - 1
            /\ peg.tokens[Len(peg.tokens)] = Tok("Script", 0, peg.position))

\* Parse failed after it had matched a whole statement of the input.
C10_Witness ==
    /\ pc = "failed"
    /\ \E i \in 1..Len(peg.tree) :
          peg.tree[i].pegRule = "Statement" /\ peg.tree[i].end > peg.tree[i].begin

\* The source the parser was given
Source == SubSeq(peg.buffer, 1, Len(peg.buffer) - 1)

\* C11: the source `create vpc cidr=10.0.0.0/abc` fails fatally in the CIDR
\* validation: Parse does not report a parse error for it, Execute does not
\* run to its end on it, and when its run has stopped it has stopped in the
\* panic of AddParamCidrValue (Action10).
C11_BadCidrFatal ==
    Source = LineBadCidr =>
        /\ pc \notin {"failed", "executed"}
        /\ (pc = "panic" => call.op = "Action10")

\* The alternatives of a parameter value in their claimed order, each with
\* the action of Execute that stores it: AddParamCidrValue, AddParamIpValue,
\* AddParamValue, AddParamIntValue, AddParamRefValue, AddParamAliasValue,
\* AddParamHoleValue, AddParamValue.
ValueAlternatives ==
    <<[e |-> CidrValue, op |-> "Action10"], [e |-> IpValue, op |-> "Action11"],
      [e |-> IntRangeValue, op |-> "Action12"], [e |-> IntValue, op |-> "Action13"],
      [e |-> RefValue, op |-> "Action9"], [e |-> AliasValue, op |-> "Action8"],
      [e |-> HoleValue, op |-> "Action7"], [e |-> StringValue, op |-> "Action14"]>>

\* Whether alternative i matches in the source at position start
MatchesAt(i, start) ==
    Match(ValueAlternatives[i].e, [Reset(peg.buffer) EXCEPT !.position = start]).ok

\* The action of the first alternative that matches at position start
FirstMatching(start) ==
    LET i == CHOOSE k \in 1..Len(ValueAlternatives) :
                 MatchesAt(k, start) /\ \A j \in 1..(k - 1) : ~MatchesAt(j, start)
    IN ValueAlternatives[i].op

\* Where the value stored by the action token at index c starts: the end of
\* the last Equal before it
ValueStart(c) ==
    LET e == CHOOSE k \in 1..c :
                 /\ peg.tokens[k].pegRule = "Equal"
                 /\ \A j \in (k + 1)..c : peg.tokens[j].pegRule # "Equal"
    IN peg.tokens[e].end

\* The text of the source from position start up to the next blank, end of
\* line or end of the source
ValueText(start) ==
    LET stop == CHOOSE k \in start..(Len(peg.buffer) - 1) :
                    /\ peg.buffer[k + 1] \in {" ", "\t", "\n", "\r", endSymbol}
                    /\ \A j \in start..(k - 1) :
                          peg.buffer[j + 1] \notin {" ", "\t", "\n", "\r", endSymbol}
    IN SubSeq(peg.buffer, start + 1, stop)

\* d-d, d.d.d.d/d and d, for runs d of digits
IsDigitsForm(v) == v # <<>> /\ AllDigits(v)
IsRangeForm(v) ==
    LET f == Split(v, "-") IN Len(f) = 2 /\ IsDigitsForm(f[1]) /\ IsDigitsForm(f[2])
IsQuadForm(v) ==
    LET f == Split(v, ".") IN Len(f) = 4 /\ \A i \in 1..4 : IsDigitsForm(f[i])
IsCidrForm(v) ==
    LET f == Split(v, "/") IN Len(f) = 2 /\ IsQuadForm(f[1]) /\ IsDigitsForm(f[2])

\* C12: the builder operation Execute invokes for a parameter value is the
\* one of the first alternative, in the order CIDR, IP, integer range,
\* integer, reference, alias, hole, string, that matches where the value
\* starts; a value d.d.d.d/d goes whole to AddParamCidrValue, a value d-d
\* goes whole to AddParamValue and is stored as a string, and a value of
\* digits goes to AddParamIntValue and is stored as an integer.
C12_FirstAlternative ==
    [][call'.op \in {"Action7", "Action8", "Action9", "Action10", "Action11",
                     "Action12", "Action13", "Action14"} =>
          LET start == ValueStart(cursor')
              v == ValueText(start)
              key == asts[1].currentKey
              n == currentExpression(World(asts[1], heap)).expr
          IN /\ call'.op = FirstMatching(start)
             /\ IsCidrForm(v) =>
                   /\ call'.op = "Action10" /\ call'.arg = v
                   /\ pc' # "panic" => ParamsOf(heap', n)[key].t = "str"
             /\ IsRangeForm(v) =>
                   /\ call'.op = "Action12"
                   /\ ParamsOf(heap', n)[key] = StrVal(v)
             /\ IsDigitsForm(v) =>
                   /\ call'.op = "Action13" /\ call'.arg = v
                   /\ pc' # "panic" => ParamsOf(heap', n)[key].t = "int"]_vars

\* A value d.d.d.d/d was stored by AddParamCidrValue after an IP address, and
\* before a range d-d, of the same expression.
C12_Witness ==
    /\ call.op = "Action10"
    /\ IsCidrForm(call.arg)
    /\ pc = "parsed"
    /\ \E n \in ExprNodes :
          /\ asts[1].currentKey \in DOMAIN ParamsOf(heap, n)
          /\ ParamsOf(heap, n)[asts[1].currentKey].t = "str"
          /\ Cardinality(DOMAIN ParamsOf(heap, n)) = 2

\* C13: a variable declaration is recognised only where `var` is followed by
\* at least one whitespace character: whenever AddVarIdentifier (Action0) is
\* invoked, the character before the identifier it is given is a blank or an
\* end of line, and the source `varx = 1` declares no variable x.
C13_VarNeedsWhitespace ==
    /\ call.op = "Action0" =>
          peg.buffer[peg.tokens[cursor - 1].begin] \in {" ", "\t", "\n", "\r"}
    /\ Source = LineVarx =>
          \A n \in 1..Len(heap) :
              heap[n].t = "var" => heap[heap[n].I].Ident # <<"x">>

\* The spans of the source that Parse recognised as a variable declaration
\* or as an expression (the right-hand side of a declaration included), in
\* source order
StatementTokens ==
    SelectSeq(peg.tokens, LAMBDA t : t.pegRule \in {"VarDeclaration", "Expr"})

\* Whether the expression span t is the right-hand side of a declaration
IsDeclared(t) ==
    \E k \in 1..Len(peg.tokens) :
        /\ peg.tokens[k].pegRule = "Declaration"
        /\ peg.tokens[k].end = t.end
        /\ peg.tokens[k].begin < t.begin

\* Whether text w stands in the source at position b
StandsAt(w, b) == SubSeq(peg.buffer, b + 1, b + Len(w)) = w

\* Whether the statement at address s of heap h is the one span t describes
BuiltFrom(h, s, t) ==
    LET n == h[s].Node
    IN IF t.pegRule = "VarDeclaration"
       THEN /\ h[n].t = "var"
            /\ \E b \in t.begin..t.end : StandsAt(h[h[n].I].Ident, b)
       ELSE IF IsDeclared(t)
       THEN /\ h[n].t = "decl"
            /\ StandsAt(h[h[n].Right].Action, t.begin)
       ELSE /\ h[n].t = "expr"
            /\ StandsAt(h[n].Action, t.begin)

\* C14: when Execute has run to its end the AST holds exactly one statement
\* per variable declaration, expression or declaration of the source, in
\* source order; the action of a comment adds no statement and leaves every
\* object built so far as it was.
C14_OneStatementEach ==
    [][/\ call'.op = "Execute" =>
             /\ Len(asts'[1].Statements) = Len(StatementTokens)
             /\ \A i \in 1..Len(StatementTokens) :
                    BuiltFrom(heap', asts'[1].Statements[i], StatementTokens[i])
       /\ call'.op = "Action21" =>
             /\ heap' = heap
             /\ asts'[1].Statements = asts[1].Statements]_vars

\* Execute ended on a source of three statements with a blank line and a
\* comment between them.
C14_Witness ==
    /\ call.op = "Execute"
    /\ Len(asts[1].Statements) = 3
    /\ \E k \in 1..Len(peg.tokens) : peg.tokens[k].pegRule = "Comment"
    /\ \E b \in 1..(Len(Source) - 1) : Source[b] = "\n" /\ Source[b + 1] = "\n"

\* C15: the script `var ip = {myip}`, `create instance subnet=$ip` builds a
\* Var ip with hole myip and no value, then an expression with the reference
\* subnet -> ip and no parameter subnet; ProcessHoles of the Var with a fill
\* for myip gives it that value and removes the hole, and ProcessRefs of the
\* expression with a value under ip puts that value under subnet in Params
\* and removes subnet from Refs.
C15_VarThenRef ==
    (Source = ScriptVarRef /\ pc = "executed") =>
        LET v == heap[asts[1].Statements[1]].Node
            e == heap[asts[1].Statements[2]].Node
            ip == <<"i", "p">>
            myip == <<"m", "y", "i", "p">>
            subnet == <<"s", "u", "b", "n", "e", "t">>
        IN /\ Len(asts[1].Statements) = 2
           /\ heap[v].t = "var" /\ heap[heap[v].I].Ident = ip
           /\ heap[e].t = "expr"
           /\ heap[e].Action = <<"c", "r", "e", "a", "t", "e">>
           /\ heap[e].Entity = <<"i", "n", "s", "t", "a", "n", "c", "e">>
           /\ call.op = "Execute" =>
                 /\ HoleOf(heap, v) = (ip :> myip)
                 /\ heap[heap[v].I].Val = NilVal
                 /\ RefsOf(heap, e) = (subnet :> ip)
                 /\ ParamsOf(heap, e) = <<>>
           /\ heap[heap[v].I].Val = NilVal => HoleOf(heap, v) = (ip :> myip)
           /\ subnet \in DOMAIN RefsOf(heap, e) =>
                 /\ RefsOf(heap, e)[subnet] = ip
                 /\ subnet \notin DOMAIN ParamsOf(heap, e)
           /\ (call.op = "ProcessHoles" /\ call.node = v /\ myip \in DOMAIN call.arg) =>
                 /\ heap[heap[v].I].Val = call.arg[myip]
                 /\ HoleOf(heap, v) = <<>>
           /\ (call.op = "ProcessRefs" /\ call.node = e /\ ip \in DOMAIN call.arg) =>
                 /\ ParamsOf(heap, e) = (subnet :> call.arg[ip])
                 /\ RefsOf(heap, e) = <<>>

\* The Var was given its value by ProcessHoles and the expression was then
\* given that value under ip by ProcessRefs.
C15_Witness ==
    /\ Source = ScriptVarRef
    /\ call.op = "ProcessRefs"
    /\ LET v == heap[asts[1].Statements[1]].Node
           e == heap[asts[1].Statements[2]].Node
       IN /\ call.node = e
          /\ <<"i", "p">> \in DOMAIN call.arg
          /\ heap[heap[v].I].Val = call.arg[<<"i", "p">>]
          /\ ParamsOf(heap, e)[<<"s", "u", "b", "n", "e", "t">>] = heap[heap[v].I].Val

\* The content of an AST of one expression statement without references,
\* aliases or holes
OneExpression(action, entity, params) ==
    <<[Node |-> [t |-> "expr", Action |-> action, Entity |-> entity,
                 Refs |-> <<>>, Params |-> params, Aliases |-> <<>>,
                 Holes |-> <<>>],
       Result |-> NilVal, Err |-> NilVal]>>

\* C16: a script of one line made of an action word, an entity word and
\* literal parameters builds exactly one statement, an expression with that
\* action and entity, with Params holding exactly the given keys and their
\* typed values, and with Refs, Aliases and Holes empty.
C16_SingleExpression ==
    call.op = "Execute" =>
        /\ Source = LineCidr =>
              Content(heap, asts[1]) =
                 OneExpression(<<"c", "r", "e", "a", "t", "e">>, <<"v", "p", "c">>,
                    (<<"c", "i", "d", "r">> :>
                        StrVal(<<"1", "0", ".", "0", ".", "0", ".", "0", "/", "1", "6">>)))
        /\ Source = LineBare =>
              Content(heap, asts[1]) =
                 OneExpression(<<"c", "r", "e", "a", "t", "e">>, <<"v", "p", "c">>, <<>>)
        /\ Source = LineLiterals =>
              Content(heap, asts[1]) =
                 OneExpression(<<"a", "t", "t", "a", "c", "h">>,
                    <<"p", "o", "l", "i", "c", "y">>,
                    (<<"a">> :> StrVal(<<"1", ".", "2", ".", "3", ".", "4">>))
                    @@ (<<"b">> :>
                          StrVal(<<"1", "0", ".", "0", ".", "0", ".", "0", "/", "1", "6">>))
                    @@ (<<"c">> :> StrVal(<<"1", "-", "2">>))
                    @@ (<<"d">> :> StrVal(<<"a", "b", ":", "c", "/", "d", ".">>)))

\* Execute ended on `create vpc cidr=10.0.0.0/16` with one statement built.
C16_Witness ==
    /\ call.op = "Execute"
    /\ Source = LineCidr
    /\ Len(asts[1].Statements) = 1
    /\ \E n \in ExprNodes : DOMAIN ParamsOf(heap, n) = {<<"c", "i", "d", "r">>}

\* C17: Statement.Action(), Entity() and Params() return the field of the
\* expression of an Expression statement and of the right-hand expression of
\* a Declaration statement, and panic, returning nothing, for a Var
\* statement.
C17_Accessors ==
    call.op \in {"Statement.Action", "Statement.Entity", "Statement.Params"} =>
        LET n == heap[call.node].Node
            e == IF heap[n].t = "decl" THEN heap[n].Right ELSE n
            field == CASE call.op = "Statement.Action" -> "Action"
                       [] call.op = "Statement.Entity" -> "Entity"
                       [] OTHER -> "Params"
        IN IF heap[n].t = "var"
           THEN pc = "panic"
           ELSE /\ pc = "executed"
                /\ heap[n].t \in {"expr", "decl"}
                /\ call.ret = heap[e][field]

\* Action() returned the action of the right-hand side of a declaration.
C17_Witness ==
    /\ call.op = "Statement.Action"
    /\ heap[heap[call.node].Node].t = "decl"
    /\ call.ret = <<"d", "e", "l", "e", "t", "e">>
    /\ pc = "executed"


\* The variant of the current statement of asts[1]: "none" when no statement
\* is open
CurrentVariant ==
    IF asts[1].currentStatement = 0 THEN "none"
    ELSE heap[heap[asts[1].currentStatement].Node].t

\* The actions of AddAction, AddEntity, AddParamKey and the AddParam*Value
\* operations, and those of the AddVar*Value operations
ExpressionRules ==
    {"Action3", "Action4", "Action6", "Action7", "Action8", "Action9",
     "Action10", "Action11", "Action13", "Action14"}
VarValueRules == {"Action15", "Action16", "Action17", "Action19", "Action20"}

\* C18: a builder operation called while the current statement has the wrong
\* variant panics and leaves the AST as it was: the expression operations on
\* a Var, the AddVar*Value operations on an expression or declaration; so do
\* AddEntity, AddParamKey, the AddParam*Value and the AddVar*Value
\* operations called with no statement open.
C18_WrongVariantPanics ==
    [][(\/ call'.op \in ExpressionRules /\ CurrentVariant = "var"
        \/ call'.op \in VarValueRules /\ CurrentVariant \in {"expr", "decl"}
        \/ /\ call'.op \in (ExpressionRules \ {"Action3"}) \cup VarValueRules
           /\ CurrentVariant = "none")
       => /\ pc' = "panic"
          /\ asts' = asts
          /\ heap' = heap]_vars

\* AddAction was called while a Var was the current statement.
C18_Witness ==
    /\ pc = "panic"
    /\ call.op = "Action3"
    /\ CurrentVariant = "var"

\* The tokens one per entry of the four maps of expression n: k=v for Params,
\* k=$v for Refs, k=@v for Aliases, k={v} for Holes
TokensOf(h, n) ==
    {k \o <<"=">> \o FormatV(ParamsOf(h, n)[k]) : k \in DOMAIN ParamsOf(h, n)}
    \cup {k \o <<"=", "$">> \o RefsOf(h, n)[k] : k \in DOMAIN RefsOf(h, n)}
    \cup {k \o <<"=", "@">> \o AliasesOf(h, n)[k] : k \in DOMAIN AliasesOf(h, n)}
    \cup {k \o <<"=", "{">> \o HolesOf(h, n)[k] \o <<"}">> : k \in DOMAIN HolesOf(h, n)}

\* The number of entries of the four maps of expression n
EntriesOf(h, n) ==
    Cardinality(DOMAIN ParamsOf(h, n)) + Cardinality(DOMAIN RefsOf(h, n))
    + Cardinality(DOMAIN AliasesOf(h, n)) + Cardinality(DOMAIN HolesOf(h, n))

\* The expressions whose maps the last operation may have changed: the one
\* ProcessHoles or ProcessRefs was called on, every expression while the
\* builder runs, none after an operation that changes no map (a clone has
\* the maps its source had when they were rendered)
RenderedNodes ==
    CASE call.op \in {"ProcessHoles", "ProcessRefs"} -> {call.node} \cap ExprNodes
      [] call.op \in {"Clone", "ExecutionStatements"} -> {}
      [] OTHER -> ExprNodes

\* C19: ExpressionNode.String() is `Action Entity` followed by one token per
\* entry of the four maps, k=v, k=$v, k=@v or k={v}, in ascending order of
\* the whole token, and is the same string in whatever order the maps are
\* ranged over.  Every expression is rendered each time its maps changed.
C19_StringCanonical ==
    \A n \in RenderedNodes : \A range \in ExpressionRangeOrders(heap, n) :
        LET parts == Split(ExpressionNodeStringOver(heap, n, range), " ")
            toks == SubSeq(parts, 3, Len(parts))
        IN /\ Len(parts) >= 3
           /\ parts[1] = heap[n].Action
           /\ parts[2] = heap[n].Entity
           /\ IF EntriesOf(heap, n) = 0 THEN toks = << <<>> >>
              ELSE /\ Len(toks) = EntriesOf(heap, n)
                   /\ {toks[i] : i \in 1..Len(toks)} = TokensOf(heap, n)
                   /\ \A i \in 1..(Len(toks) - 1) : StrLess(toks[i], toks[i + 1])
           /\ ExpressionNodeStringOver(heap, n, range) = ExpressionNodeString(heap, n)

\* An expression with two holes, an alias and two references was rendered;
\* its maps can be ranged over in four ways.
C19_Witness ==
    /\ call.op = "Execute"
    /\ \E n \in ExprNodes :
          /\ EntriesOf(heap, n) = 5
          /\ Cardinality(ExpressionRangeOrders(heap, n)) = 4

\* The expressions the grammar is made of: e and every expression inside it
RECURSIVE SubExprs(_)
SubExprs(e) ==
    {e} \cup
    CASE e.t \in {"seq", "choice"} ->
            UNION {SubExprs(e.es[i]) : i \in 1..Len(e.es)}
      [] e.t = "switch" ->
            SubExprs(e.default) \cup UNION {SubExprs(e.cases[c]) : c \in DOMAIN e.cases}
      [] e.t \in {"star", "plus", "opt", "not", "text", "rule", "inline"} ->
            SubExprs(e.e)
      [] OTHER -> {}

\* The parser at position start of its source, nothing recorded yet
ParserAt(start) == [Reset(peg.buffer) EXCEPT !.position = start]

\* What the rest of a parse can see of a parser state: the result, the
\* position, the token index and the tokens recorded below it
Visible(q) ==
    [ok |-> q.ok, position |-> q.position, tokenIndex |-> q.tokenIndex,
     tokens |-> SubSeq(q.tree, 1, q.tokenIndex)]

\* The iterations of e* from p that match, each started from where the
\* one before it ended
RECURSIVE Iterations(_, _)
Iterations(e, p) ==
    LET r == Match(e, p) IN IF r.ok THEN Iterations(e, r) ELSE p

\* Whether the alternatives 1..k of choice e all fail from p
AllFail(e, k, p) == \A i \in 1..k : ~Match(e.es[i], p).ok

TextActions == ActionRules \ {"Action1", "Action5", "Action21"}

\* The index of the last capture span before token i of the parse, 0 when
\* there is none
LastCapture(i) ==
    LET before == {k \in 1..(i - 1) : peg.tokens[k].pegRule = "PegText"}
    IN IF before = {} THEN 0 ELSE CHOOSE k \in before : \A m \in before : m <= k

\* Whether the capture span at index j is that of the operand of the action
\* at index i: it ends where the action stands, or, for the action of a
\* hole, it lies in the HoleValue span emitted right before the action
OperandCapture(j, i) ==
    IF peg.tokens[i].pegRule \in {"Action7", "Action15"}
    THEN /\ peg.tokens[i - 1].pegRule = "HoleValue"
         /\ peg.tokens[i - 1].end = peg.tokens[i].begin
         /\ peg.tokens[i - 1].begin < peg.tokens[j].begin
         /\ peg.tokens[j].end < peg.tokens[i - 1].end
    ELSE peg.tokens[j].end = peg.tokens[i].begin

\* C21: in the tokens of a successful parse every action that consumes text
\* has the capture span of its own operand as the last capture span before
\* it, with no other action between the two; and when Execute reaches the
\* action, `text` is the text of that span.
C21_OwnCapture ==
    /\ (call.op = "Parse" /\ pc = "parsed") =>
          \A i \in 1..Len(peg.tokens) :
              peg.tokens[i].pegRule \in TextActions =>
                  /\ LastCapture(i) > 0
                  /\ \A k \in (LastCapture(i) + 1)..(i - 1) :
                         peg.tokens[k].pegRule \notin ActionRules
                  /\ OperandCapture(LastCapture(i), i)
    /\ call.op \in TextActions =>
          /\ LastCapture(cursor) > 0
          /\ call.arg = SubSeq(peg.buffer, peg.tokens[LastCapture(cursor)].begin + 1,
                               peg.tokens[LastCapture(cursor)].end)

\* Execute reached the action of a hole value, whose capture lies inside the
\* HoleValue span, after the action of the parameter's key.
C21_Witness ==
    /\ call.op = "Action7"
    /\ call.arg = <<"z">>
    /\ peg.tokens[cursor - 1].pegRule = "HoleValue"

\* The indices of the non-empty spans among the tokens of the parse
NonEmpty == {i \in 1..Len(peg.tokens) : peg.tokens[i].begin < peg.tokens[i].end}

\* C22: the tokens of a successful parse are in post-order: of two non-empty
\* spans the earlier one is contained in the later one or ends at or before
\* its beginning; no two spans overlap partly and none comes before one of
\* its sub-matches.
C22_PostOrder ==
    (call.op = "Parse" /\ pc = "parsed") =>
        \A i, j \in NonEmpty :
            i < j =>
                \/ /\ peg.tokens[j].begin <= peg.tokens[i].begin
                   /\ peg.tokens[i].end <= peg.tokens[j].end
                \/ peg.tokens[i].end <= peg.tokens[j].begin

\* A parse succeeded after an optional group had matched blanks and was
\* rolled back: the expression ends before the blank that follows it.
C22_Witness ==
    /\ call.op = "Parse"
    /\ pc = "parsed"
    /\ \E i \in NonEmpty :
          /\ peg.tokens[i].pegRule = "Expr"
          /\ peg.buffer[peg.tokens[i].end + 1] = " "
    /\ Cardinality(NonEmpty) > 20

RECURSIVE Siblings(_, _)
\* The nodes chained through next from node c on, in the order of the chain
Siblings(t, c) == IF c = 0 THEN <<>> ELSE <<c>> \o Siblings(t, t.next[c])

\* The children of node n: the chain that begins at its up
Children(t, n) == Siblings(t, t.up[n])

RECURSIVE Below(_, _)
\* The nodes of the tree under node n, n included
Below(t, n) ==
    {n} \cup UNION {Below(t, Children(t, n)[k]) : k \in 1..Len(Children(t, n))}

\* Span i lies inside span j
Inside(i, j) ==
    /\ peg.tokens[j].begin <= peg.tokens[i].begin
    /\ peg.tokens[i].end <= peg.tokens[j].end

\* The first non-empty span after span i that contains it, 0 if there is none
Encloser(i) ==
    LET later == {j \in NonEmpty : j > i /\ Inside(i, j)}
    IN IF later = {} THEN 0 ELSE CHOOSE j \in later : \A m \in later : j <= m

\* C23: AST() on the tokens of a successful parse returns one tree rooted at
\* the Script span: its nodes are the non-empty spans, each one once and no
\* empty one; every node but the root is a child of exactly one node, the
\* first later span that contains it; the children of a node are chained
\* through next from up on, the earliest span first.
C23_OneTree ==
    call.op = "AST" =>
        LET t == call.ret
        IN /\ t.root # 0
           /\ peg.tokens[t.root].pegRule = "Script"
           /\ t.next[t.root] = 0
           /\ t.nodes = NonEmpty
           /\ Below(t, t.root) = NonEmpty
           /\ \A n \in NonEmpty :
                 LET c == Children(t, n)
                 IN /\ \A k \in 1..Len(c) : Inside(c[k], n) /\ Encloser(c[k]) = n
                    /\ \A k \in 1..(Len(c) - 1) : c[k] < c[k + 1]
           /\ \A i \in NonEmpty \ {t.root} :
                 Cardinality({n \in NonEmpty :
                     \E k \in 1..Len(Children(t, n)) : Children(t, n)[k] = i}) = 1

\* The tree of a script of two statements: the root has several children and
\* some node of the tree has the same span as its only child.
C23_Witness ==
    /\ call.op = "AST"
    /\ Len(Children(call.ret, call.ret.root)) >= 2
    /\ \E n \in NonEmpty :
          /\ Len(Children(call.ret, n)) = 1
          /\ peg.tokens[Children(call.ret, n)[1]].begin = peg.tokens[n].begin
          /\ peg.tokens[Children(call.ret, n)[1]].end = peg.tokens[n].end

\* The end offset of max after expression e has run from position start
MaxEnd(e, start) == Match(e, ParserAt(start)).max.end

\* The alternatives of choice e in the opposite order
Reversed(e) == Choice([k \in 1..Len(e.es) |-> e.es[Len(e.es) + 1 - k]])

\* C24: the span a failed parse reports is the furthest one matched in the
\* whole parse.  No span left in the token array ends beyond it; in every
\* expression of the grammar at every position of every source, max ends
\* after a choice no earlier than after any alternative that was tried, and
\* after an optional group, a repetition or a lookahead no earlier than after
\* its operand, rolled back or not; and when all alternatives of a choice
\* fail max ends at the same offset whichever of them is tried last.
C24_FurthestReported ==
    /\ pc = "failed" =>
          /\ peg.max.pegRule = "Unknown" \/ peg.max.begin < peg.max.end
          /\ \A i \in 1..Len(peg.tree) :
                peg.tree[i].begin # peg.tree[i].end => peg.tree[i].end <= peg.max.end
    /\ pc = "init" =>
          \A e \in SubExprs(Script) : \A start \in 0..(Len(peg.buffer) - 1) :
              CASE e.t = "choice" ->
                     /\ \A k \in 1..Len(e.es) :
                           AllFail(e, k - 1, ParserAt(start)) =>
                               MaxEnd(e.es[k], start) <= MaxEnd(e, start)
                     /\ AllFail(e, Len(e.es), ParserAt(start)) =>
                           MaxEnd(Reversed(e), start) = MaxEnd(e, start)
                [] e.t \in {"opt", "star", "plus", "not"} ->
                     MaxEnd(e.e, start) <= MaxEnd(e, start)
                [] OTHER -> TRUE

\* A parse failed and reports a span that is no longer in the token array:
\* the attempt that matched it was rolled back and its tokens were
\* overwritten by the alternatives tried after it.
C24_Witness ==
    /\ pc = "failed"
    /\ peg.max.begin < peg.max.end
    /\ peg.position < peg.max.end
    /\ \A i \in 1..Len(peg.tree) : peg.tree[i] # peg.max

\* The index of the end symbol appended to the source
SentinelIndex == Len(peg.buffer) - 1

\* C25: the position never passes the index of the appended end symbol.  A
\* literal, a character class or `.` tried at the end symbol fails and tried
\* anywhere leaves the position at or before it; so does every expression of
\* the grammar from every position of every source, and so does Parse.  Every
\* read of buffer[position] is then inside the buffer.
C25_SentinelNeverConsumed ==
    /\ pc = "init" =>
          /\ \A e \in {x \in SubExprs(Script) : x.t \in {"lit", "class", "dot"}} :
                /\ ~Match(e, ParserAt(SentinelIndex)).ok
                /\ Match(e, ParserAt(SentinelIndex)).position = SentinelIndex
                /\ \A start \in 0..SentinelIndex :
                      Match(e, ParserAt(start)).position <= SentinelIndex
          /\ \A e \in SubExprs(Script) : \A start \in 0..SentinelIndex :
                Match(e, ParserAt(start)).position <= SentinelIndex
    /\ peg.position <= SentinelIndex
    /\ peg.buffer[SentinelIndex + 1] = endSymbol

\* A parse accepted a source that ends in a comment: the loop (!EndOfLine .)*
\* of the comment ran up to the end symbol and `.` failed on it.
C25_Witness ==
    /\ pc = "parsed"
    /\ call.op = "Parse"
    /\ peg.position = SentinelIndex
    /\ \E i \in 1..Len(peg.tokens) :
          /\ peg.tokens[i].pegRule = "Comment"
          /\ peg.tokens[i].end = SentinelIndex

\* The actions of Execute that store an integer, an address and an
\* address with a prefix length, for a parameter and for a variable
IntActions == {"Action13", "Action19"}
IpActions == {"Action11", "Action17"}
CidrActions == {"Action10", "Action16"}

RECURSIVE DigitGroups(_, _)
\* The maximal digit runs of txt in their order, run being the one at hand
DigitGroups(txt, run) ==
    IF txt = <<>> THEN <<run>>
    ELSE IF Head(txt) \in Digits THEN DigitGroups(Tail(txt), Append(run, Head(txt)))
    ELSE <<run>> \o DigitGroups(Tail(txt), <<>>)

\* The characters of txt that are no digits, in their order
Separators(txt) == SelectSeq(txt, LAMBDA c : c \notin Digits)

\* A digit run beyond the range of int
BeyondInt(run) ==
    \/ Len(StripZeros(run)) > 19
    \/ Len(StripZeros(run)) = 19 /\ StrLess(MaxInt64Digits, StripZeros(run))

\* A text of four digit runs that is no dotted quad: a separator other than
\* '.' or an octet above 255
BadQuad(groups, seps) ==
    \/ \E k \in 1..3 : seps[k] # "."
    \/ \E k \in 1..4 : SatVal(groups[k], 0) > 255

\* Whether txt, accepted by the rule of action op, is not valid for it
InvalidLiteral(op, txt) ==
    CASE op \in IntActions -> BeyondInt(txt)
      [] op \in IpActions -> BadQuad(DigitGroups(txt, <<>>), Separators(txt))
      [] op \in CidrActions ->
            \/ BadQuad(DigitGroups(txt, <<>>), Separators(txt))
            \/ SatVal(DigitGroups(txt, <<>>)[5], 0) > 32
      [] OTHER -> FALSE

\* C26: when Execute hands an AddParam*/AddVar* operation for an integer, an
\* address or an address with prefix a text that is not valid (an octet above
\* 255, a prefix above 32, a digit run beyond the range of int, a separator
\* other than '.'), the operation panics and stores nothing: the AST and
\* every node are as before, and no operation follows.
C26_InvalidLiteralFatal ==
    [][(/\ pc = "parsed"
        /\ call'.op \in IntActions \cup IpActions \cup CidrActions
        /\ InvalidLiteral(call'.op, call'.arg))
       => (pc' = "panic" /\ heap' = heap /\ asts' = asts)]_vars

\* AddParamIpValue has panicked on 1x2x3x4, which the IpValue rule accepts
C26_Witness ==
    /\ pc = "panic"
    /\ call.op = "Action11"
    /\ call.arg = <<"1", "x", "2", "x", "3", "x", "4">>

\* The rule whose body holds the action, or the rule holding the value rule
\* that has it
Owner(op) ==
    CASE op \in {"Action0", "Action1", "Action15", "Action16", "Action17",
                 "Action18", "Action19", "Action20"} -> "VarDeclaration"
      [] op = "Action2" -> "Declaration"
      [] op \in {"Action3", "Action4", "Action5"} -> "Expr"
      [] op = "Action21" -> "Comment"
      [] OTHER -> "Param"

\* Whether the action token at index c belongs to a span of its owner rule
\* that the parse accepted: the span is recorded after it and holds it
InAccepted(c) ==
    \E j \in (c + 1)..Len(peg.tokens) :
        /\ peg.tokens[j].pegRule = Owner(peg.tokens[c].pegRule)
        /\ peg.tokens[j].begin <= peg.tokens[c].begin
        /\ peg.tokens[c].end <= peg.tokens[j].end

\* The number of nodes of kind t on heap h
NodeCount(h, t) == Cardinality({n \in 1..Len(h) : h[n].t = t})

\* The number of spans of rule r among the tokens of the parse
SpanCount(r) == Cardinality({k \in 1..Len(peg.tokens) : peg.tokens[k].pegRule = r})

\* C27: Parse calls no builder operation: it leaves the AST and the heap as
\* they are.  Each step of Execute calls the builder operation of the next
\* action span of the token sequence, skipping none, and that span lies in an
\* accepted span of the rule that records it; when Execute returns, the heap
\* holds one Var per accepted VarDeclaration, one expression per accepted
\* Expr and one declaration per accepted Declaration, so that an action
\* recorded in an attempt that was rolled back is not run and has built
\* nothing.
C27_OnlyAcceptedActions ==
    [][/\ call'.op = "Parse" => (asts' = asts /\ heap' = heap)
       /\ (pc = "parsed" /\ call'.op \in ActionRules \cup {"Execute"}) =>
             /\ cursor < cursor' \/ call'.op = "Execute"
             /\ \A k \in (cursor + 1)..(cursor' - 1) :
                   peg.tokens[k].pegRule \notin ActionRules
             /\ call'.op \in ActionRules =>
                   /\ peg.tokens[cursor'].pegRule = call'.op
                   /\ InAccepted(cursor')
             /\ call'.op = "Execute" =>
                   /\ cursor' = Len(peg.tokens)
                   /\ peg.tokens[cursor'].pegRule \notin ActionRules
                   /\ NodeCount(heap', "var") = SpanCount("VarDeclaration")
                   /\ NodeCount(heap', "expr") = SpanCount("Expr")
                   /\ NodeCount(heap', "decl") = SpanCount("Declaration")]_vars

\* Execute has returned on `create = create vpc`, a declaration: the attempt
\* to read it as an expression recorded AddAction and was rolled back.
C27_Witness ==
    /\ call.op = "Execute"
    /\ NodeCount(heap, "decl") > 0
    /\ LET r == Match(Expr, ParserAt(0))
       IN /\ ~r.ok
          /\ \E i \in 1..Len(r.tree) : r.tree[i].pegRule = "Action3"

\* Whether the action token at index c lies in a Declaration span after the
\* identifier: the expression it belongs to is a declaration's right-hand side
DeclaredAt(c) ==
    \E j \in (c + 1)..Len(peg.tokens) :
        /\ peg.tokens[j].pegRule = "Declaration"
        /\ peg.tokens[j].begin < peg.tokens[c].begin
        /\ peg.tokens[c].end <= peg.tokens[j].end

\* C28: during Execute, AddVarIdentifier and AddDeclarationIdentifier run
\* with no statement open and open one; AddAction of a bare expression runs
\* with no statement open and adds a Statement, AddAction of a declaration's
\* right-hand side runs with the declaration open and adds none; LineDone
\* leaves no statement open and no key; and when Execute returns
\* currentStatement is nil and currentKey is empty.
C28_OpenThenClose ==
    [][(pc = "parsed" /\ call'.op \in ActionRules \cup {"Execute"}) =>
          /\ call'.op \in {"Action0", "Action2"} =>
                /\ asts[1].currentStatement = 0
                /\ asts'[1].currentStatement # 0
                /\ Len(asts'[1].Statements) = Len(asts[1].Statements) + 1
          /\ (call'.op = "Action3" /\ ~DeclaredAt(cursor')) =>
                /\ asts[1].currentStatement = 0
                /\ asts'[1].currentStatement # 0
                /\ Len(asts'[1].Statements) = Len(asts[1].Statements) + 1
          /\ (call'.op = "Action3" /\ DeclaredAt(cursor')) =>
                /\ asts[1].currentStatement # 0
                /\ heap[heap[asts[1].currentStatement].Node].t = "decl"
                /\ asts'[1] = asts[1]
          /\ call'.op \notin {"Action0", "Action2", "Action3"} =>
                asts'[1].Statements = asts[1].Statements
          /\ call'.op \in {"Action1", "Action5", "Action21"} =>
                /\ asts'[1].currentStatement = 0
                /\ asts'[1].currentKey = <<>>
          /\ call'.op = "Execute" =>
                /\ asts'[1].currentStatement = 0
                /\ asts'[1].currentKey = <<>>]_vars

\* Execute has returned on a script whose statements are a declaration and a
\* bare expression with a parameter: two statement-opening operations ran,
\* and one AddAction inside the declaration.
C28_Witness ==
    /\ call.op = "Execute"
    /\ NodeCount(heap, "decl") > 0
    /\ NodeCount(heap, "expr") > NodeCount(heap, "decl")
    /\ \E n \in ExprNodes : DOMAIN ParamsOf(heap, n) # {}

\* create vpc a=10abc
LineDigitsLetters ==
    <<"c", "r", "e", "a", "t", "e", " ", "v", "p", "c", " ", "a", "=", "1", "0", "a", "b", "c">>

\* create vpc a=10b=2
LineDigitsParam ==
    <<"c", "r", "e", "a", "t", "e", " ", "v", "p", "c", " ", "a", "=", "1", "0", "b", "=", "2">>

\* The actions of Execute that store the text of the StringValue alternative
StringActions == {"Action14", "Action20"}

\* C29: a value that begins with a digit is taken by a numeric alternative,
\* which stops at the end of the longest numeric prefix, and what follows is
\* not made part of a String: the text given to AddParamIntValue or
\* AddVarIntValue is a whole digit run of the source, no text given to
\* AddParamValue or AddVarValue by the String alternative begins with a
\* digit, `create vpc a=10abc` does not parse, and `create vpc a=10b=2`
\* builds a=10 and b=2.
C29_NumericPrefixCommits ==
    /\ call.op \in IntActions =>
          /\ AllDigits(call.arg)
          /\ call.arg # <<>>
          /\ peg.buffer[peg.tokens[LastCapture(cursor)].end + 1] \notin Digits
    /\ call.op \in StringActions => Head(call.arg) \notin Digits
    /\ Source = LineDigitsLetters => pc \in {"init", "failed"}
    /\ (Source = LineDigitsParam /\ call.op = "Execute") =>
          Content(heap, asts[1]) =
             OneExpression(<<"c", "r", "e", "a", "t", "e">>, <<"v", "p", "c">>,
                (<<"a">> :> IntVal(<<"1", "0">>)) @@ (<<"b">> :> IntVal(<<"2">>)))

\* Parse has failed on `create vpc a=10abc` after the integer alternative
\* matched 10: the span of the integer is still in the token array.
C29_Witness ==
    /\ pc = "failed"
    /\ Source = LineDigitsLetters
    /\ \E i \in 1..Len(peg.tree) : peg.tree[i] = Tok("IntValue", 13, 15)

\* The repetitions e* and e+ of the grammar
Loops == {e \in SubExprs(Script) : e.t \in {"star", "plus"}}

\* Whether expression e has a repetition in it
HasLoop(e) == \E x \in SubExprs(e) : x.t \in {"star", "plus"}

\* Whether an iteration of repetition e that matches from position start
\* ends after it
Advances(e, start) ==
    LET r == Match(e.e, ParserAt(start))
    IN r.ok => r.position > start

\* C30: no repetition of the grammar can iterate without consuming input: at
\* every position of every source, an iteration of Statement+, Param+,
\* Space*, Whitespace*, EndOfLine*, of a digit, identifier or string
\* character run or of a comment body either fails, which ends the loop, or
\* leaves the position at least one character further; Parse then ends
\* with the position inside the buffer.
C30_LoopsConsume ==
    /\ pc = "init" =>
          /\ \A e \in {x \in Loops : ~HasLoop(x.e)} :
                \A start \in 0..SentinelIndex : Advances(e, start)
          /\ \A e \in {x \in Loops : HasLoop(x.e)} :
                \A start \in 0..SentinelIndex : Advances(e, start)
    /\ call.op = "Parse" => (pc \in {"parsed", "failed"} /\ peg.position <= SentinelIndex)

\* Parse has returned on a script of several statements with parameters: the
\* loops Statement+ and Param+ have both iterated more than once.
C30_Witness ==
    /\ call.op = "Parse"
    /\ pc = "parsed"
    /\ SpanCount("Statement") >= 2
    /\ \E i \in 1..Len(peg.tokens) :
          /\ peg.tokens[i].pegRule = "Params"
          /\ Cardinality({k \in 1..i : /\ peg.tokens[k].pegRule = "Param"
                                       /\ peg.tokens[k].begin >= peg.tokens[i].begin}) >= 2

=============================================================================
